---- MODULE Spec2Model ----
(***************************************************************************)
(* EduAI backend: the assessment scoring engine and the skill-gap          *)
(* aggregation of apps/assessments (models.py, views.py, serializers.py).  *)
(*                                                                         *)
(* Numbers: percentages live in two forms.  The in-memory score of         *)
(* calculate_score is the unrounded ratio earned/total*100, kept here as   *)
(* the exact fraction num/den.  Everything that is stored with two         *)
(* decimals (AssessmentAttempt.score, skill_scores values, average_score,  *)
(* gapPercentage) is an integer number of hundredths of a percent, so      *)
(* 75.00 is 7500.  Binary floating point error is not modelled: ratios     *)
(* are exact rationals.  Ordered dicts keep their insertion order, as a    *)
(* JSON column stored as text does.                                        *)
(*                                                                         *)
(* Spec is one attempt on an assessment whose questions an instructor      *)
(* posts; SpecGaps is the statistics of an assessment over several         *)
(* attempts.                                                               *)
(***************************************************************************)
EXTENDS Integers, Sequences, FiniteSets, TLC

(***************************************************************************)
(* Bounds of the model.                                                    *)
(***************************************************************************)
MaxQuestions == 2
MaxGapAttempts == 2

(***************************************************************************)
(* Input domains.                                                          *)
(***************************************************************************)
Users == {"u1"}

\* Question templates an instructor may post (points, skill_category with ""
\* for absent, isCorrect flags of the options in stored order).
QuestionPool ==
    { [points |-> 1,   skill_category |-> "math",    options |-> <<TRUE, FALSE>>],
      [points |-> 1,   skill_category |-> "math",    options |-> <<FALSE, TRUE>>],
      [points |-> 2,   skill_category |-> "logic",   options |-> <<TRUE, FALSE>>],
      [points |-> 2,   skill_category |-> "",        options |-> <<TRUE, TRUE>>],
      [points |-> 0,   skill_category |-> "logic",   options |-> <<FALSE, TRUE>>],
      [points |-> 199, skill_category |-> "",        options |-> <<FALSE, FALSE>>] }

\* Assessment.passing_score: PositiveIntegerField validated to 0..100.
PassingScores == {0, 1, 100}

\* Option indices a client may submit for a question.
AnswerValues == {-3, -1, 0, 1, 2}

\* Keys of the submitted answers dict: str(question.id) of the questions that
\* can exist, and a key that matches no question.
StrOf == [i \in 1..9 |-> <<"1", "2", "3", "4", "5", "6", "7", "8", "9">>[i]]
str(id) == StrOf[id]
UnknownKey == "x"

(***************************************************************************)
(* Python values: an insertion-ordered dict is a sequence of [k, v]        *)
(* records; a JSON answers dict is a function from its keys.               *)
(***************************************************************************)
RECURSIVE DictIndex(_, _, _)
DictIndex(d, k, i) ==
    IF i > Len(d) THEN 0
    ELSE IF d[i].k = k THEN i
    ELSE DictIndex(d, k, i + 1)

DictHas(d, k) == DictIndex(d, k, 1) # 0

DictGet(d, k, default) ==
    IF DictHas(d, k) THEN d[DictIndex(d, k, 1)].v ELSE default

\* d[k] = v: an existing key keeps its position, a new key goes last.
DictSet(d, k, v) ==
    IF DictHas(d, k)
    THEN [d EXCEPT ![DictIndex(d, k, 1)] = [k |-> k, v |-> v]]
    ELSE Append(d, [k |-> k, v |-> v])

DictKeys(d) == {d[i].k : i \in 1..Len(d)}

\* seq[i] of a Python list: 0..len-1 from the front, -len..-1 from the back,
\* IndexError otherwise.
PyIndexOk(seq, i) == -Len(seq) <= i /\ i < Len(seq)
PyIndex(seq, i) == IF i >= 0 THEN seq[i + 1] ELSE seq[Len(seq) + i + 1]

RECURSIVE SumSeq(_)
SumSeq(s) == IF Len(s) = 0 THEN 0 ELSE Head(s) + SumSeq(Tail(s))

\* Nearest integer to n/d for n >= 0, d > 0, ties to the even neighbour
\* (Python round() and decimal's default ROUND_HALF_EVEN).
RoundHalfEven(n, d) ==
    LET q == n \div d
        r == n % d
    IN  IF 2 * r < d THEN q
        ELSE IF 2 * r > d THEN q + 1
        ELSE IF q % 2 = 0 THEN q ELSE q + 1

(***************************************************************************)
(* AssessmentAttempt.calculate_score                                       *)
(***************************************************************************)
\* skill = question.skill_category or 'General'
SkillOf(q) == IF q.skill_category = "" THEN "General" ELSE q.skill_category

\* Question.get_correct_answer and the feedback loop of AttemptResultSerializer:
\* the index of the first option flagged correct, -1 when none is.
RECURSIVE CorrectIndex(_, _)
CorrectIndex(options, i) ==
    IF i > Len(options) THEN -1
    ELSE IF options[i] THEN i - 1
    ELSE CorrectIndex(options, i + 1)

\* total_points = sum(q.points for q in questions)
RECURSIVE TotalPoints(_)
TotalPoints(qs) ==
    IF Len(qs) = 0 THEN 0 ELSE Head(qs).points + TotalPoints(Tail(qs))

\* The "Check answer" block: TRUE when the question's points are awarded.
IsAwarded(q, answers) ==
    LET key == str(q.id)
    IN  /\ key \in DOMAIN answers
        /\ PyIndexOk(q.options, answers[key])
        /\ PyIndex(q.options, answers[key])

\* Variant: the skill's total is tracked only for questions answered wrongly.
ScoreStepTotalOnMiss(acc, q, answers) ==
    LET skill == SkillOf(q)
    IN  IF IsAwarded(q, answers)
        THEN [acc EXCEPT !.earned_points = acc.earned_points + q.points,
                         !.skill_correct = DictSet(acc.skill_correct, skill,
                              DictGet(acc.skill_correct, skill, 0) + q.points)]
        ELSE [acc EXCEPT !.skill_total = DictSet(acc.skill_total, skill,
                              DictGet(acc.skill_total, skill, 0) + q.points)]

\* One iteration of the loop over the questions.
ScoreStep(acc, q, answers) ==
    LET skill == SkillOf(q)
        total == DictSet(acc.skill_total, skill,
                         DictGet(acc.skill_total, skill, 0) + q.points)
    IN  IF IsAwarded(q, answers)
        THEN [earned_points |-> acc.earned_points + q.points,
              skill_total   |-> total,
              skill_correct |-> DictSet(acc.skill_correct, skill,
                                   DictGet(acc.skill_correct, skill, 0) + q.points)]
        ELSE [acc EXCEPT !.skill_total = total]

RECURSIVE ScoreLoop(_, _, _, _)
ScoreLoop(acc, qs, i, answers) ==
    IF i > Len(qs) THEN acc
    ELSE ScoreLoop(ScoreStep(acc, qs[i], answers), qs, i + 1, answers)

\* Variant: an assessment without points counts as fully solved.
ScoreOfFullWhenEmpty(earned, total) ==
    IF total > 0 THEN [num |-> earned * 100, den |-> total]
    ELSE [num |-> 100, den |-> 1]

\* self.score = (earned_points / total_points * 100) if total_points > 0 else 0
ScoreOf(earned, total) ==
    IF total > 0 THEN [num |-> earned * 100, den |-> total]
    ELSE [num |-> 0, den |-> 1]

\* Variant: the threshold itself does not pass.
PassedStrict(score, passing) == score.num > passing * score.den

\* self.passed = self.score >= self.assessment.passing_score
Passed(score, passing) == score.num >= passing * score.den

\* round((correct / total * 100), 2) if total > 0 else 0, in hundredths
SkillScore(correct, total) ==
    IF total > 0 THEN RoundHalfEven(correct * 10000, total) ELSE 0

\* Variant: skills whose questions total zero points are left out.
RECURSIVE SkillScoresOfSkipZero(_, _, _, _)
SkillScoresOfSkipZero(scores, skill_total, skill_correct, i) ==
    IF i > Len(skill_total) THEN scores
    ELSE IF skill_total[i].v = 0
         THEN SkillScoresOfSkipZero(scores, skill_total, skill_correct, i + 1)
         ELSE SkillScoresOfSkipZero(
                  DictSet(scores, skill_total[i].k,
                          SkillScore(DictGet(skill_correct, skill_total[i].k, 0),
                                     skill_total[i].v)),
                  skill_total, skill_correct, i + 1)

\* The loop writing self.skill_scores, over skill_total in insertion order.
RECURSIVE SkillScoresOf(_, _, _, _)
SkillScoresOf(scores, skill_total, skill_correct, i) ==
    IF i > Len(skill_total) THEN scores
    ELSE SkillScoresOf(
             DictSet(scores, skill_total[i].k,
                     SkillScore(DictGet(skill_correct, skill_total[i].k, 0),
                                skill_total[i].v)),
             skill_total, skill_correct, i + 1)

\* The score column is DecimalField(max_digits=5, decimal_places=2): save()
\* stores the float quantized to two decimals.
StoredScore(score) == RoundHalfEven(score.num * 100, score.den)

\* One run of calculate_score: what it read (the questions, self.answers, the
\* passing score), its locals and what it wrote.
CalculateScore(qs, answers, passing, old_skill_scores) ==
    LET total_points == TotalPoints(qs)
        acc == ScoreLoop([earned_points |-> 0, skill_total |-> <<>>,
                          skill_correct |-> <<>>], qs, 1, answers)
        score == ScoreOf(acc.earned_points, total_points)
    IN  [ran           |-> TRUE,
         questions     |-> qs,
         answers       |-> answers,
         passing       |-> passing,
         total_points  |-> total_points,
         earned_points |-> acc.earned_points,
         skill_total   |-> acc.skill_total,
         skill_correct |-> acc.skill_correct,
         score         |-> score,
         passed        |-> Passed(score, passing),
         skill_scores  |-> SkillScoresOf(old_skill_scores, acc.skill_total,
                                         acc.skill_correct, 1)]

(***************************************************************************)
(* The statistics block of AssessmentViewSet.submit                        *)
(***************************************************************************)
\* skill_gaps after visiting the (skill, score) items of one attempt.
RECURSIVE GapsOfAttempt(_, _, _)
GapsOfAttempt(skill_gaps, skill_scores, i) ==
    IF i > Len(skill_scores) THEN skill_gaps
    ELSE GapsOfAttempt(
             DictSet(skill_gaps, skill_scores[i].k,
                     Append(DictGet(skill_gaps, skill_scores[i].k, <<>>),
                            10000 - skill_scores[i].v)),
             skill_scores, i + 1)

\* skill_gaps after the loop over the attempts, in queryset order.
RECURSIVE CollectGaps(_, _, _)
CollectGaps(skill_gaps, atts, i) ==
    IF i > Len(atts) THEN skill_gaps
    ELSE CollectGaps(GapsOfAttempt(skill_gaps, atts[i].skill_scores, 1), atts, i + 1)

\* key=lambda x: sum(x[1]) / len(x[1]), compared as exact fractions:
\* TRUE when the mean gap of item a is greater than that of item b.
MeanGreater(a, b) == SumSeq(a.v) * Len(b.v) > SumSeq(b.v) * Len(a.v)

\* Variant: an element goes before the elements of equal mean (unstable sort).
RECURSIVE InsertDescUnstable(_, _)
InsertDescUnstable(s, x) ==
    IF Len(s) = 0 THEN <<x>>
    ELSE IF ~MeanGreater(Head(s), x) THEN <<x>> \o s
    ELSE <<Head(s)>> \o InsertDescUnstable(Tail(s), x)

\* Position of x in the sorted sequence s: after every element that does not
\* order strictly below it (sorted(..., reverse=True) is stable).
RECURSIVE InsertDesc(_, _)
InsertDesc(s, x) ==
    IF Len(s) = 0 THEN <<x>>
    ELSE IF MeanGreater(x, Head(s)) THEN <<x>> \o s
    ELSE <<Head(s)>> \o InsertDesc(Tail(s), x)

RECURSIVE SortedDesc(_, _, _)
SortedDesc(done, items, i) ==
    IF i > Len(items) THEN done
    ELSE SortedDesc(InsertDesc(done, items[i]), items, i + 1)

\* The slice [:5].
TopN == 5
Take(s, n) == IF Len(s) <= n THEN s ELSE SubSeq(s, 1, n)

\* Variant: the gaps of a skill are averaged over all the attempts visited.
TopSkillGapsOverAll(atts) ==
    LET sorted == Take(SortedDesc(<<>>, CollectGaps(<<>>, atts, 1), 1), TopN)
    IN  [i \in 1..Len(sorted) |->
            [skill |-> sorted[i].k,
             gapPercentage |-> RoundHalfEven(SumSeq(sorted[i].v), Len(atts))]]

\* assessment.top_skill_gaps computed from the completed attempts.
TopSkillGaps(atts) ==
    LET sorted == Take(SortedDesc(<<>>, CollectGaps(<<>>, atts, 1), 1), TopN)
    IN  [i \in 1..Len(sorted) |->
            [skill |-> sorted[i].k,
             gapPercentage |-> RoundHalfEven(SumSeq(sorted[i].v), Len(sorted[i].v))]]

\* AssessmentAttempt.objects.filter(status='completed') under Meta.ordering
\* ['-started_at']: the completed attempts, newest first.
RECURSIVE CompletedNewestFirst(_, _)
CompletedNewestFirst(atts, i) ==
    IF i = 0 THEN <<>>
    ELSE IF atts[i].status = "completed"
         THEN <<atts[i]>> \o CompletedNewestFirst(atts, i - 1)
         ELSE CompletedNewestFirst(atts, i - 1)

RECURSIVE SumScores(_)
SumScores(atts) == IF Len(atts) = 0 THEN 0 ELSE Head(atts).score + SumScores(Tail(atts))

\* attempts.aggregate(Avg('score'))['score__avg'] or 0, stored with 2 decimals.
AverageScore(done) ==
    IF Len(done) = 0 THEN 0 ELSE RoundHalfEven(SumScores(done), Len(done))

(***************************************************************************)
(* State                                                                   *)
(***************************************************************************)
VARIABLES
    questions,       \* assessment.questions.all(), in 'order' order
    passing_score,   \* assessment.passing_score
    attempts,        \* AssessmentAttempt rows of the assessment, oldest first
    total_attempts,  \* assessment.total_attempts
    average_score,   \* assessment.average_score, in hundredths
    top_skill_gaps,  \* assessment.top_skill_gaps
    calc,            \* locals of the latest calculate_score run
    response,        \* status and subject of the latest HTTP response
    last_question_id, \* the id the database gave the latest question row
    score_runs,      \* history: calculate_score runs on each attempt row
    reqs,            \* requests in flight: their position and locals
    gam,             \* the user's UserGamification row
    user_achievements, \* the user's UserAchievement rows
    today,           \* timezone.now().date(), as a day number
    awarded,         \* history: number and sum of the amounts passed to add_xp
    assessment_status, \* assessment.status; "none" before the row is created
    enrollments,     \* Enrollment rows of the course, oldest first
    total_enrollments, \* course.total_enrollments
    certificates     \* Certificate rows of the course, oldest first

gamVars == <<gam, user_achievements, today, awarded>>

catalogVars == <<assessment_status, enrollments, total_enrollments, certificates>>

vars == <<questions, passing_score, attempts, total_attempts, average_score,
          top_skill_gaps, calc, response, last_question_id, score_runs, reqs,
          gamVars, catalogVars>>

\* UserGamification defaults: 0 XP, level 1, Novice, no streak, no activity.
\* last_activity_date is <<>> for None and <<d>> for day d.
NoDate == <<>>
NewGamification ==
    [total_xp |-> 0, level |-> 1, rank |-> "Novice", current_streak |-> 0,
     longest_streak |-> 0, last_activity_date |-> NoDate]

\* No request in flight, and the gamification tables as a new user has them.
\* The assessment is published; the course has no enrollment and no
\* certificate yet.
NoCatalog ==
    /\ assessment_status = "published"
    /\ enrollments = <<>>
    /\ total_enrollments = 0
    /\ certificates = <<>>

Quiet ==
    /\ reqs = <<>>
    /\ gam = NewGamification
    /\ user_achievements = <<>>
    /\ today = 0
    /\ awarded = [calls |-> 0, sum |-> 0]

NoCalc ==
    [ran |-> FALSE, questions |-> <<>>, answers |-> <<>>, passing |-> 0,
     total_points |-> 0, earned_points |-> 0, skill_total |-> <<>>,
     skill_correct |-> <<>>, score |-> [num |-> 0, den |-> 1], passed |-> FALSE,
     skill_scores |-> <<>>]

\* AssessmentAttempt defaults: in_progress, score 0.00, not passed, {} and {}.
NewAttempt(u) ==
    [user |-> u, status |-> "in_progress", score |-> 0, passed |-> FALSE,
     time_taken |-> 0, answers |-> <<>>, skill_scores |-> <<>>]

\* Variant: the user's attempts of any status.
AttemptsOfUser(u) == {i \in 1..Len(attempts) : attempts[i].user = u}

InProgress(u) ==
    {i \in 1..Len(attempts) :
        attempts[i].user = u /\ attempts[i].status = "in_progress"}

\* A new assessment, on which a user has started an attempt.
Init ==
    /\ questions = <<>>
    /\ passing_score \in PassingScores
    /\ attempts \in {<<NewAttempt(u)>> : u \in Users}
    /\ total_attempts = 0
    /\ average_score = 0
    /\ top_skill_gaps = <<>>
    /\ calc = NoCalc
    /\ response = [op |-> "none", status |-> 0, attempt |-> 0]
    /\ NoCatalog
    /\ last_question_id = 0
    /\ score_runs = <<0>>
    /\ Quiet

(***************************************************************************)
(* Requests                                                                *)
(***************************************************************************)
\* The sequence s with x put in at position p.
InsertAt(s, p, x) == SubSeq(s, 1, p - 1) \o <<x>> \o SubSeq(s, p, Len(s))

\* Meta.ordering ['assessment', 'order']: the rows come in 'order' order, rows
\* of equal order in an order the database chooses.
InOrder(qs) == \A i, j \in 1..Len(qs) : i < j => qs[i].order <= qs[j].order

\* POST questions/: QuestionViewSet.perform_create saves the question with
\* order = number of questions so far; ids are handed out in sequence.  At
\* most max questions are kept at a time.
CreateQuestionUpTo(q, max) ==
    /\ Len(questions) < max
    /\ \E p \in 1..(Len(questions) + 1) :
          LET row == [id |-> last_question_id + 1, order |-> Len(questions),
                      points |-> q.points, skill_category |-> q.skill_category,
                      options |-> q.options]
          IN  /\ InOrder(InsertAt(questions, p, row))
              /\ questions' = InsertAt(questions, p, row)
    /\ last_question_id' = last_question_id + 1
    /\ response' = [op |-> "create_question", status |-> 201, attempt |-> 0]
    /\ UNCHANGED <<passing_score, attempts, total_attempts, average_score,
                   top_skill_gaps, calc, score_runs, reqs, gamVars,
                   catalogVars>>

CreateQuestion(q) == CreateQuestionUpTo(q, MaxQuestions)

\* POST start/: the user's in-progress attempt if there is one (200), a new
\* attempt row otherwise (201); at most max rows are created.
StartUpTo(u, max) ==
    /\ IF InProgress(u) # {}
       THEN /\ response' = [op |-> "start", status |-> 200,
                            attempt |-> CHOOSE i \in InProgress(u) :
                                            \A j \in InProgress(u) : i >= j]
            /\ UNCHANGED <<attempts, score_runs>>
       ELSE /\ Len(attempts) < max
            /\ attempts' = Append(attempts, NewAttempt(u))
            /\ score_runs' = Append(score_runs, 0)
            /\ response' = [op |-> "start", status |-> 201,
                            attempt |-> Len(attempts) + 1]
    /\ UNCHANGED <<questions, passing_score, total_attempts, average_score,
                   top_skill_gaps, calc, last_question_id, reqs, gamVars,
                   catalogVars>>

\* The attempt row after submit's attempt.save() and calculate_score().
Scored(att, payload, res) ==
    [att EXCEPT !.answers = payload.answers,
                !.time_taken = payload.time_taken,
                !.status = "completed",
                !.score = StoredScore(res.score),
                !.passed = res.passed,
                !.skill_scores = res.skill_scores]

\* The statistics written to the assessment from its attempt rows.
UpdateStatistics(atts) ==
    LET done == CompletedNewestFirst(atts, Len(atts))
    IN  /\ total_attempts' = Len(done)
        /\ average_score' = AverageScore(done)
        /\ top_skill_gaps' = TopSkillGaps(done)

\* POST submit/ with a payload SubmitAnswersSerializer accepts.
Submit(u, payload) ==
    /\ Cardinality(InProgress(u)) = 1
    /\ LET i == CHOOSE j \in InProgress(u) : TRUE
           res == CalculateScore(questions, payload.answers, passing_score,
                                 attempts[i].skill_scores)
           atts == [attempts EXCEPT ![i] = Scored(attempts[i], payload, res)]
       IN  /\ attempts' = atts
           /\ calc' = res
           /\ UpdateStatistics(atts)
           /\ response' = [op |-> "submit", status |-> 200, attempt |-> i]
           /\ score_runs' = [score_runs EXCEPT ![i] = @ + 1]
    /\ UNCHANGED <<questions, passing_score, last_question_id, reqs, gamVars,
                   catalogVars>>

\* POST submit/ without an in-progress attempt: get_object_or_404 answers 404.
SubmitNotFound(u) ==
    /\ InProgress(u) = {}
    /\ response' = [op |-> "submit", status |-> 404, attempt |-> 0]
    /\ UNCHANGED <<questions, passing_score, attempts, total_attempts,
                   average_score, top_skill_gaps, calc, last_question_id,
                   score_runs, reqs, gamVars, catalogVars>>

\* Variant: the rejected submission closes the attempt.
SubmitInvalidClosing(u) ==
    /\ Cardinality(InProgress(u)) = 1
    /\ attempts' = [i \in 1..Len(attempts) |->
                        IF i \in InProgress(u)
                        THEN [attempts[i] EXCEPT !.status = "completed"]
                        ELSE attempts[i]]
    /\ response' = [op |-> "submit", status |-> 400, attempt |-> 0]
    /\ UNCHANGED <<questions, passing_score, total_attempts,
                   average_score, top_skill_gaps, calc, last_question_id,
                   score_runs, reqs, gamVars, catalogVars>>

\* POST submit/ with a payload the serializer rejects (a non-integer answer
\* value, a missing or negative time_taken): 400.
SubmitInvalid(u) ==
    /\ Cardinality(InProgress(u)) = 1
    /\ response' = [op |-> "submit", status |-> 400, attempt |-> 0]
    /\ UNCHANGED <<questions, passing_score, attempts, total_attempts,
                   average_score, top_skill_gaps, calc, last_question_id,
                   score_runs, reqs, gamVars, catalogVars>>

\* The payloads a client may send for the current questions.
TimeValues == {30}
AnswerKeys == {str(questions[i].id) : i \in 1..Len(questions)}
Payloads ==
    LET known == UNION {[S -> AnswerValues] : S \in SUBSET AnswerKeys}
        unknown == {[k \in {UnknownKey} |-> 0]}
    IN  {[answers |-> f, time_taken |-> t] : f \in known \cup unknown,
                                             t \in TimeValues}

Next ==
    \/ \E q \in QuestionPool : CreateQuestion(q)
    \/ \E u \in Users : InProgress(u) # {} /\ \E payload \in Payloads : Submit(u, payload)
    \/ \E u \in Users : SubmitNotFound(u)
    \/ \E u \in Users : SubmitInvalid(u)

Spec == Init /\ [][Next]_vars

(***************************************************************************)
(* Vocabulary of the properties                                            *)
(***************************************************************************)
\* The skill label of a question, an absent one read as "General".
LabelOf(q) == IF q.skill_category = "" THEN "General" ELSE q.skill_category

\* The submission holds a zero-based index into the question's options.
HasValidIndex(q, answers) ==
    /\ str(q.id) \in DOMAIN answers
    /\ answers[str(q.id)] \in 0..(Len(q.options) - 1)

\* The submission holds an index that is no zero-based index of an option.
HasInvalidIndex(q, answers) ==
    /\ str(q.id) \in DOMAIN answers
    /\ answers[str(q.id)] \notin 0..(Len(q.options) - 1)

\* The submitted index is a valid one and its option is flagged correct.
SelectsFlagged(q, answers) ==
    /\ HasValidIndex(q, answers)
    /\ q.options[answers[str(q.id)] + 1]

\* The submitted index is that of the question's correct answer.
SelectsCorrect(q, answers) ==
    /\ HasValidIndex(q, answers)
    /\ answers[str(q.id)] = CorrectIndex(q.options, 1)

RECURSIVE PointsOver(_, _)
PointsOver(qs, I) ==
    IF I = {} THEN 0
    ELSE LET i == CHOOSE j \in I : TRUE
         IN  qs[i].points + PointsOver(qs, I \ {i})

AllPoints(qs) == PointsOver(qs, 1..Len(qs))
FlaggedPoints(qs, answers) ==
    PointsOver(qs, {i \in 1..Len(qs) : SelectsFlagged(qs[i], answers)})
SkillPoints(qs, s) == PointsOver(qs, {i \in 1..Len(qs) : LabelOf(qs[i]) = s})
SkillFlaggedPoints(qs, answers, s) ==
    PointsOver(qs, {i \in 1..Len(qs) :
                       LabelOf(qs[i]) = s /\ SelectsFlagged(qs[i], answers)})

\* v hundredths is n/d rounded to the nearest hundredth.
IsRounded(v, n, d) == 2 * v * d - 2 * n <= d /\ 2 * n - 2 * v * d <= d

\* n/d rounded to the nearest integer, halves upwards.
RoundHalfUp(n, d) == (2 * n + d) \div (2 * d)

\* The submission without the answer to question q.
Omitting(answers, q) == [k \in DOMAIN answers \ {str(q.id)} |-> answers[k]]

\* calculate_score of a fresh attempt on the latest run's questions.
Rescore(answers) == CalculateScore(calc.questions, answers, calc.passing, <<>>)

SameResult(r1, r2) ==
    /\ r1.score.num * r2.score.den = r2.score.num * r1.score.den
    /\ r1.passed = r2.passed
    /\ r1.skill_scores = r2.skill_scores

(***************************************************************************)
(* Properties of calculate_score and submit                                *)
(***************************************************************************)
\* C1: after calculate_score, score = 100 * earned / total when total > 0,
\* where earned is the sum of the points of the questions whose submitted
\* zero-based index selects an option flagged correct, and each skill's score
\* is 100 * (points earned on the skill) / (points of the skill), to the two
\* decimals it is kept with.
C1_ScoreIsEarnedOverTotal ==
    calc.ran =>
        LET qs == calc.questions
            T  == AllPoints(qs)
            E  == FlaggedPoints(qs, calc.answers)
        IN  /\ T > 0 => calc.score.num * T = 100 * E * calc.score.den
            /\ \A i \in 1..Len(qs) :
                  LET s  == LabelOf(qs[i])
                      Ts == SkillPoints(qs, s)
                      Es == SkillFlaggedPoints(qs, calc.answers, s)
                  IN  Ts > 0 =>
                        /\ DictHas(calc.skill_scores, s)
                        /\ IsRounded(DictGet(calc.skill_scores, s, 0), 10000 * Es, Ts)

\* C2: the points earned never exceed the sum of all question points, and per
\* skill the points counted correct never exceed the skill's total.
C2_PointsConservation ==
    calc.ran =>
        /\ calc.earned_points <= AllPoints(calc.questions)
        /\ calc.earned_points <= calc.total_points
        /\ \A i \in 1..Len(calc.skill_correct) :
              LET s == calc.skill_correct[i].k
              IN  /\ calc.skill_correct[i].v <= DictGet(calc.skill_total, s, 0)
                  /\ calc.skill_correct[i].v <= SkillPoints(calc.questions, s)

\* A submission with missing, negative and out-of-range answers was scored
\* and earned some but not all of the points.
C2_Witness ==
    /\ calc.ran
    /\ 0 < calc.earned_points
    /\ calc.earned_points < calc.total_points
    /\ \E i \in 1..Len(calc.questions) : HasInvalidIndex(calc.questions[i], calc.answers)

AllCorrect ==
    \A i \in 1..Len(calc.questions) : SelectsCorrect(calc.questions[i], calc.answers)

FullCredit ==
    /\ calc.score.num = 100 * calc.score.den
    /\ calc.passed
    /\ \A i \in 1..Len(attempts) :
          (attempts[i].status = "completed" /\ response.attempt = i)
              => attempts[i].score = 10000 /\ attempts[i].passed

\* C3 as stated: whenever the submission selects the correct option of every
\* question, the score is 100 and the attempt passed, for any assessment.
C3_FullCreditAnyAssessment ==
    (calc.ran /\ response.op = "submit" /\ response.status = 200 /\ AllCorrect)
        => FullCredit

\* C3: when the questions total more than zero points and the submission
\* selects the correct option of every question, the score is 100 and the
\* attempt passed, for every passing threshold <= 100.
C3_FullCredit ==
    (calc.ran /\ response.op = "submit" /\ response.status = 200 /\ AllCorrect
        /\ AllPoints(calc.questions) > 0)
        => FullCredit

\* Every question answered correctly under the highest threshold, 100.
C3_Witness ==
    /\ calc.ran /\ response.op = "submit" /\ response.status = 200
    /\ AllCorrect
    /\ Len(calc.questions) = 2
    /\ AllPoints(calc.questions) > 0
    /\ calc.passing = 100
    /\ calc.passed

\* C4: an invalid option index (outside 0..len(options)-1, negative ones
\* included) yields the same score, verdict and skill_scores as omitting the
\* question from the submission.
C4_InvalidIndexAsOmitted ==
    calc.ran =>
        \A i \in 1..Len(calc.questions) :
            HasInvalidIndex(calc.questions[i], calc.answers) =>
                SameResult(calc, Rescore(Omitting(calc.answers, calc.questions[i])))

\* C5: with several options flagged correct, selecting a flagged option
\* after the first one earns none of the question's points.
C5_OnlyFirstFlaggedEarns ==
    calc.ran =>
        \A i \in 1..Len(calc.questions) :
            LET q == calc.questions[i]
            IN  (SelectsFlagged(q, calc.answers) /\ ~SelectsCorrect(q, calc.answers)) =>
                    Rescore(Omitting(calc.answers, q)).earned_points = calc.earned_points

\* C6: the keys of skill_scores are exactly the distinct skill labels of the
\* assessment's questions, an absent label read as "General", also for a
\* skill whose questions total zero points.
C6_SkillPartition ==
    calc.ran =>
        /\ DictKeys(calc.skill_scores) =
              {LabelOf(calc.questions[i]) : i \in 1..Len(calc.questions)}
        /\ \A i, j \in 1..Len(calc.skill_scores) :
              calc.skill_scores[i].k = calc.skill_scores[j].k => i = j
        /\ \A i \in 1..Len(attempts) :
              (attempts[i].status = "completed" /\ response.op = "submit"
                  /\ response.status = 200 /\ response.attempt = i)
                  => attempts[i].skill_scores = calc.skill_scores

\* Two skills, one of them from an unlabelled question and one whose
\* questions total zero points.
C6_Witness ==
    /\ calc.ran
    /\ Len(calc.skill_scores) = 2
    /\ \E i \in 1..Len(calc.questions) : calc.questions[i].skill_category = ""
    /\ \E i \in 1..Len(calc.skill_total) : calc.skill_total[i].v = 0

\* C7: passed is true exactly when the score rounded half-up to two decimals
\* is >= the passing score.
C7_PassOnRoundedScore ==
    calc.ran =>
        (calc.passed <=>
            RoundHalfUp(calc.score.num * 100, calc.score.den) >= 100 * calc.passing)

\* C8: an assessment without questions, or whose questions total zero points,
\* scores 0 with no division by zero, and passes only under threshold 0.
C8_ZeroPoints ==
    (calc.ran /\ AllPoints(calc.questions) = 0) =>
        /\ calc.score.den # 0
        /\ calc.score.num = 0
        /\ calc.passed <=> (calc.passing = 0)
        /\ \A i \in 1..Len(attempts) :
              (attempts[i].status = "completed" /\ response.op = "submit"
                  /\ response.status = 200 /\ response.attempt = i)
                  => attempts[i].score = 0 /\ (attempts[i].passed <=> passing_score = 0)

\* An attempt on an assessment without questions was scored under a positive
\* threshold.
C8_Witness ==
    /\ calc.ran
    /\ Len(calc.questions) = 0
    /\ calc.passing > 0
    /\ ~calc.passed
    /\ response.op = "submit" /\ response.status = 200

\* C9: a submit with integer answer values ends with the attempt completed and
\* its score stored, and an answer that is no valid index of its question
\* counts as incorrect.
C9_ScoringTotal ==
    (response.op = "submit" /\ response.status = 200) =>
        /\ calc.ran
        /\ attempts[response.attempt].status = "completed"
        /\ attempts[response.attempt].score = StoredScore(calc.score)
        /\ \A i \in 1..Len(calc.questions) :
              HasInvalidIndex(calc.questions[i], calc.answers) =>
                  Rescore(Omitting(calc.answers, calc.questions[i])).earned_points
                      = calc.earned_points

(***************************************************************************)
(* The statistics of an assessment over several attempts.  The questions   *)
(* are left out: a submit is taken with the skill scores calculate_score   *)
(* gave the attempt, drawn from GapSkillScores.                            *)
(***************************************************************************)
GapValues == {2000, 4000, 7000, 9000}
GapCoarseValues == {4000, 9000}
\* 33.33: one point of three earned in a skill; {}: no question at all.
GapThird == 3333
GapSkillScores ==
    {<<[k |-> p[1], v |-> x], [k |-> p[2], v |-> y]>> :
        p \in {<<"A", "B">>, <<"B", "A">>}, x \in GapValues, y \in GapValues}
    \cup
    {<<[k |-> p[1], v |-> x], [k |-> p[2], v |-> y], [k |-> p[3], v |-> z]>> :
        p \in {<<"C", "D", "E">>, <<"F", "B", "A">>},
        x \in GapCoarseValues, y \in GapCoarseValues, z \in GapCoarseValues}
    \cup
    {<<>>, <<[k |-> "A", v |-> GapThird]>>}

RECURSIVE SumValues(_)
SumValues(d) == IF Len(d) = 0 THEN 0 ELSE Head(d).v + SumValues(Tail(d))

\* The result of calculate_score on questions whose skills weigh the same and
\* come out with the skill scores ss.
ScoredAs(ss, passing) ==
    LET score == IF Len(ss) = 0 THEN [num |-> 0, den |-> 1]
                 ELSE [num |-> SumValues(ss), den |-> 100 * Len(ss)]
    IN  [NoCalc EXCEPT !.ran = TRUE, !.passing = passing, !.score = score,
                       !.passed = Passed(score, passing), !.skill_scores = ss]

StartGap(u) == StartUpTo(u, MaxGapAttempts)

\* POST submit/ of an attempt that calculate_score gives the skill scores ss.
SubmitScored(u, ss) ==
    /\ Cardinality(InProgress(u)) = 1
    /\ LET i == CHOOSE j \in InProgress(u) : TRUE
           res == ScoredAs(ss, passing_score)
           atts == [attempts EXCEPT
                       ![i] = Scored(attempts[i],
                                     [answers |-> <<>>, time_taken |-> 30], res)]
       IN  /\ attempts' = atts
           /\ calc' = res
           /\ UpdateStatistics(atts)
           /\ response' = [op |-> "submit", status |-> 200, attempt |-> i]
           /\ score_runs' = [score_runs EXCEPT ![i] = @ + 1]
    /\ UNCHANGED <<questions, passing_score, last_question_id, reqs, gamVars,
                   catalogVars>>

InitGaps ==
    /\ questions = <<>>
    /\ passing_score = 70
    /\ attempts = <<>>
    /\ total_attempts = 0
    /\ average_score = 0
    /\ top_skill_gaps = <<>>
    /\ calc = NoCalc
    /\ response = [op |-> "none", status |-> 0, attempt |-> 0]
    /\ NoCatalog
    /\ last_question_id = 0
    /\ score_runs = <<>>
    /\ Quiet

NextGaps ==
    \/ \E u \in Users : StartGap(u)
    \/ \E u \in Users : \E ss \in GapSkillScores : SubmitScored(u, ss)

SpecGaps == InitGaps /\ [][NextGaps]_vars

\* The completed attempts in the order the statistics block visits them.
Visited == CompletedNewestFirst(attempts, Len(attempts))

ObservedSkills == UNION {DictKeys(Visited[i].skill_scores) : i \in 1..Len(Visited)}

\* The gaps 100 - score of skill s over the attempts that report it.
GapSum(s) ==
    LET I == {i \in 1..Len(Visited) : DictHas(Visited[i].skill_scores, s)}
        F[J \in SUBSET I] ==
            IF J = {} THEN 0
            ELSE LET i == CHOOSE j \in J : TRUE
                 IN  (10000 - DictGet(Visited[i].skill_scores, s, 0)) + F[J \ {i}]
    IN  F[I]
GapCount(s) ==
    Cardinality({i \in 1..Len(Visited) : DictHas(Visited[i].skill_scores, s)})

\* Mean gap of s greater than, or equal to, that of t.
GapAbove(s, t) == GapSum(s) * GapCount(t) > GapSum(t) * GapCount(s)
GapSame(s, t) == GapSum(s) * GapCount(t) = GapSum(t) * GapCount(s)

\* Where s is first seen: the first visited attempt that reports it and its
\* place among that attempt's skill scores.
FirstAttemptOf(s) ==
    CHOOSE i \in 1..Len(Visited) :
        /\ DictHas(Visited[i].skill_scores, s)
        /\ \A j \in 1..(i - 1) : ~DictHas(Visited[j].skill_scores, s)
SeenBefore(s, t) ==
    \/ FirstAttemptOf(s) < FirstAttemptOf(t)
    \/ /\ FirstAttemptOf(s) = FirstAttemptOf(t)
       /\ DictIndex(Visited[FirstAttemptOf(s)].skill_scores, s, 1)
            < DictIndex(Visited[FirstAttemptOf(s)].skill_scores, t, 1)

\* s is ranked ahead of t: greater mean gap, or equal mean gap and seen first.
RankedAhead(s, t) == GapAbove(s, t) \/ (GapSame(s, t) /\ SeenBefore(s, t))

ListedSkills == {top_skill_gaps[i].skill : i \in 1..Len(top_skill_gaps)}

\* C10: top_skill_gaps lists observed skills in descending order of mean gap,
\* equal means in first-seen order, and keeps the first 5 of that ranking (all
\* of them when no more than 5 skills were observed).
C10_GapOrdering ==
    /\ Len(top_skill_gaps) <= 5
    /\ Len(top_skill_gaps) =
          IF Cardinality(ObservedSkills) <= 5 THEN Cardinality(ObservedSkills) ELSE 5
    /\ ListedSkills \subseteq ObservedSkills
    /\ \A i, j \in 1..Len(top_skill_gaps) :
          i < j => RankedAhead(top_skill_gaps[i].skill, top_skill_gaps[j].skill)
    /\ \A s \in ObservedSkills \ ListedSkills :
          \A i \in 1..Len(top_skill_gaps) : RankedAhead(top_skill_gaps[i].skill, s)

\* The attempts {A: 90, B: 40} and {A: 70, B: 20} give B (gap 70) before A
\* (gap 20).
C10_Witness ==
    /\ Len(Visited) = 2
    /\ \E i, j \in 1..2 :
          /\ i # j
          /\ DictKeys(Visited[i].skill_scores) = {"A", "B"}
          /\ DictGet(Visited[i].skill_scores, "A", 0) = 9000
          /\ DictGet(Visited[i].skill_scores, "B", 0) = 4000
          /\ DictKeys(Visited[j].skill_scores) = {"A", "B"}
          /\ DictGet(Visited[j].skill_scores, "A", 0) = 7000
          /\ DictGet(Visited[j].skill_scores, "B", 0) = 2000
    /\ top_skill_gaps = <<[skill |-> "B", gapPercentage |-> 7000],
                          [skill |-> "A", gapPercentage |-> 2000]>>

\* More than 5 skills were observed and 5 are listed.
C10_WitnessTruncated ==
    /\ Cardinality(ObservedSkills) > 5
    /\ Len(top_skill_gaps) = 5

\* Two listed skills have the same mean gap.
C10_WitnessTie ==
    \E i, j \in 1..Len(top_skill_gaps) :
        i < j /\ GapSame(top_skill_gaps[i].skill, top_skill_gaps[j].skill)

\* C11 as stated: the gapPercentage of a listed skill is exactly the mean of
\* 100 - skill_score over the completed attempts that report the skill.
C11_ExactMean ==
    \A i \in 1..Len(top_skill_gaps) :
        top_skill_gaps[i].gapPercentage * GapCount(top_skill_gaps[i].skill)
            = GapSum(top_skill_gaps[i].skill)

\* C11: the gapPercentage of a listed skill is the mean of 100 - skill_score
\* over exactly the completed attempts that report the skill, rounded to two
\* decimals; only skills some completed attempt reports are listed, and there
\* is no entry when no attempt is completed.
C11_GapIsRoundedMean ==
    /\ ListedSkills \subseteq ObservedSkills
    /\ Len(Visited) = 0 => top_skill_gaps = <<>>
    /\ \A i \in 1..Len(top_skill_gaps) :
          /\ GapCount(top_skill_gaps[i].skill) >= 1
          /\ IsRounded(top_skill_gaps[i].gapPercentage,
                       GapSum(top_skill_gaps[i].skill),
                       GapCount(top_skill_gaps[i].skill))

\* Two completed attempts, one listed skill reported by only one of them and
\* one listed skill whose mean gap has more than two decimals.
C11_Witness ==
    /\ Len(Visited) = 2
    /\ \E i \in 1..Len(top_skill_gaps) : GapCount(top_skill_gaps[i].skill) = 1
    /\ \E i \in 1..Len(top_skill_gaps) :
          /\ GapCount(top_skill_gaps[i].skill) = 2
          /\ GapSum(top_skill_gaps[i].skill) % 2 = 1

(***************************************************************************)
(* Attempts over time: two users start and submit, one request after the   *)
(* other, while the instructor creates, edits and deletes questions.       *)
(***************************************************************************)
MaxLiveQuestions == 1
MaxQuestionIds == 2
MaxAttempts == 2

AttemptUsers == {"u1", "u2"}
\* The two versions of a question: option 0 is the correct one, or option 1.
EditPool ==
    {[points |-> 1, skill_category |-> "math", options |-> <<TRUE, FALSE>>],
     [points |-> 1, skill_category |-> "math", options |-> <<FALSE, TRUE>>]}
EditAnswerValues == {0}

\* POST questions/ while ids are left.
CreateLiveQuestion(q) ==
    /\ last_question_id < MaxQuestionIds
    /\ CreateQuestionUpTo(q, MaxLiveQuestions)

\* A question changed on the admin site (QuestionAdmin, QuestionInline): the
\* row takes the points, skill and options sent and keeps its id and order.
\* No attempt is read or written.  (PUT questions/<id>/ ends in
\* has_object_permission, see DeleteQuestionRequest.)
EditQuestion(i, q) ==
    /\ i \in 1..Len(questions)
    /\ questions' = [questions EXCEPT ![i].points = q.points,
                                       ![i].skill_category = q.skill_category,
                                       ![i].options = q.options]
    /\ questions' # questions
    /\ response' = [op |-> "edit_question", status |-> 302, attempt |-> 0]
    /\ UNCHANGED <<passing_score, attempts, total_attempts, average_score,
                   top_skill_gaps, calc, last_question_id, score_runs, reqs,
                   gamVars, catalogVars>>

\* A question deleted on the admin site: the row goes; the other rows keep
\* id and order.
DeleteQuestion(i) ==
    /\ i \in 1..Len(questions)
    /\ questions' = SubSeq(questions, 1, i - 1)
                        \o SubSeq(questions, i + 1, Len(questions))
    /\ response' = [op |-> "delete_question", status |-> 302, attempt |-> 0]
    /\ UNCHANGED <<passing_score, attempts, total_attempts, average_score,
                   top_skill_gaps, calc, last_question_id, score_runs, reqs,
                   gamVars, catalogVars>>

StartAttempt(u) == StartUpTo(u, MaxAttempts)

\* The payloads of SpecAttempts: option 0 for every question.
EditPayloads ==
    {[answers |-> f, time_taken |-> t] :
        f \in [AnswerKeys -> EditAnswerValues], t \in TimeValues}

InitAttempts ==
    /\ questions = <<>>
    /\ passing_score = 70
    /\ attempts = <<>>
    /\ total_attempts = 0
    /\ average_score = 0
    /\ top_skill_gaps = <<>>
    /\ calc = NoCalc
    /\ response = [op |-> "none", status |-> 0, attempt |-> 0]
    /\ NoCatalog
    /\ last_question_id = 0
    /\ score_runs = <<>>
    /\ Quiet

NextAttempts ==
    \/ \E q \in EditPool : CreateLiveQuestion(q)
    \/ \E i \in 1..Len(questions) : \E q \in EditPool : EditQuestion(i, q)
    \/ \E i \in 1..Len(questions) : DeleteQuestion(i)
    \/ \E u \in AttemptUsers : StartAttempt(u)
    \/ \E u \in AttemptUsers : \E payload \in EditPayloads : Submit(u, payload)
    \/ \E u \in AttemptUsers : SubmitNotFound(u)

SpecAttempts == InitAttempts /\ [][NextAttempts]_vars

MaxRequests == 3

RaceUsers == {"u1", "u2"}
RaceQuestion ==
    [id |-> 1, order |-> 0, points |-> 1, skill_category |-> "math",
     options |-> <<TRUE, FALSE>>]
NoPayload == [answers |-> <<>>, time_taken |-> 0]
RacePayloads ==
    {[answers |-> [k \in {str(1)} |-> v], time_taken |-> t] :
        v \in {0, 1}, t \in TimeValues}
NoStats == [total_attempts |-> 0, average_score |-> 0, top_skill_gaps |-> <<>>]

\* A request as it arrives: which view, whose, what it sends, and its locals.
NewRequest(op, u, payload) ==
    [op |-> op, user |-> u, pc |-> IF op = "start" THEN "check" ELSE "fetch",
     payload |-> payload, attempt |-> 0, row |-> NewAttempt(u), stats |-> NoStats]

\* A request that was answered: its locals are gone.
Answered(req) ==
    [req EXCEPT !.pc = "done", !.payload = NoPayload, !.attempt = 0,
                !.row = NewAttempt(req.user), !.stats = NoStats]

At(r, op, pc) ==
    /\ r \in 1..Len(reqs)
    /\ reqs[r].op = op
    /\ reqs[r].pc = pc

\* A client sends POST start/ or POST submit/.
Arrive(op, u, payload) ==
    /\ Len(reqs) < MaxRequests
    /\ reqs' = Append(reqs, NewRequest(op, u, payload))
    /\ UNCHANGED <<questions, passing_score, attempts, total_attempts,
                   average_score, top_skill_gaps, calc, response,
                   last_question_id, score_runs, gamVars, catalogVars>>

\* start: existing = filter(user, assessment, status='in_progress').first();
\* if existing: 200 with it.
StartCheck(r) ==
    /\ At(r, "start", "check")
    /\ IF InProgress(reqs[r].user) # {}
       THEN /\ response' = [op |-> "start", status |-> 200,
                            attempt |-> CHOOSE i \in InProgress(reqs[r].user) :
                                    \A j \in InProgress(reqs[r].user) : i >= j]
            /\ reqs' = [reqs EXCEPT ![r] = Answered(@)]
       ELSE /\ reqs' = [reqs EXCEPT ![r].pc = "create"]
            /\ UNCHANGED response
    /\ UNCHANGED <<questions, passing_score, attempts, total_attempts,
                   average_score, top_skill_gaps, calc, last_question_id,
                   score_runs, gamVars, catalogVars>>

\* start: AssessmentAttempt.objects.create(user, assessment); 201.
StartCreate(r) ==
    /\ At(r, "start", "create")
    /\ attempts' = Append(attempts, NewAttempt(reqs[r].user))
    /\ score_runs' = Append(score_runs, 0)
    /\ response' = [op |-> "start", status |-> 201, attempt |-> Len(attempts) + 1]
    /\ reqs' = [reqs EXCEPT ![r] = Answered(@)]
    /\ UNCHANGED <<questions, passing_score, total_attempts, average_score,
                   top_skill_gaps, calc, last_question_id, gamVars,
                   catalogVars>>

\* submit: get_object_or_404(AssessmentAttempt, user, assessment,
\* status='in_progress'): 404 when there is none, MultipleObjectsReturned
\* (a 500) when there are several, else the row is loaded.
SubmitFetch(r) ==
    /\ At(r, "submit", "fetch")
    /\ LET found == InProgress(reqs[r].user)
       IN  IF Cardinality(found) = 1
           THEN /\ reqs' = [reqs EXCEPT
                               ![r].pc = "complete",
                               ![r].attempt = CHOOSE i \in found : TRUE,
                               ![r].row = attempts[CHOOSE i \in found : TRUE]]
                /\ UNCHANGED response
           ELSE /\ reqs' = [reqs EXCEPT ![r] = Answered(@)]
                /\ response' = [op |-> "submit",
                                status |-> IF found = {} THEN 404 ELSE 500,
                                attempt |-> 0]
    /\ UNCHANGED <<questions, passing_score, attempts, total_attempts,
                   average_score, top_skill_gaps, calc, last_question_id,
                   score_runs, gamVars, catalogVars>>

\* submit: the loaded row takes the answers, time_taken and status completed;
\* attempt.save() writes every column of it.
SubmitComplete(r) ==
    /\ At(r, "submit", "complete")
    /\ LET row == [reqs[r].row EXCEPT !.answers = reqs[r].payload.answers,
                                      !.time_taken = reqs[r].payload.time_taken,
                                      !.status = "completed"]
       IN  /\ attempts' = [attempts EXCEPT ![reqs[r].attempt] = row]
           /\ reqs' = [reqs EXCEPT ![r].pc = "score", ![r].row = row]
    /\ UNCHANGED <<questions, passing_score, total_attempts, average_score,
                   top_skill_gaps, calc, response, last_question_id, score_runs,
                   gamVars, catalogVars>>

\* submit: attempt.calculate_score() reads the questions, sets score, passed
\* and skill_scores on the loaded row and saves it.
SubmitScore(r) ==
    /\ At(r, "submit", "score")
    /\ LET res == CalculateScore(questions, reqs[r].row.answers, passing_score,
                                 reqs[r].row.skill_scores)
           row == [reqs[r].row EXCEPT !.score = StoredScore(res.score),
                                      !.passed = res.passed,
                                      !.skill_scores = res.skill_scores]
       IN  /\ attempts' = [attempts EXCEPT ![reqs[r].attempt] = row]
           /\ score_runs' = [score_runs EXCEPT ![reqs[r].attempt] = @ + 1]
           /\ calc' = res
           /\ reqs' = [reqs EXCEPT ![r].pc = "read", ![r].row = row]
    /\ UNCHANGED <<questions, passing_score, total_attempts, average_score,
                   top_skill_gaps, response, last_question_id, gamVars,
                   catalogVars>>

\* submit: the statistics are computed from the completed rows of the moment
\* and set on the assessment object of the request.
SubmitReadStats(r) ==
    /\ At(r, "submit", "read")
    /\ LET done == CompletedNewestFirst(attempts, Len(attempts))
       IN  reqs' = [reqs EXCEPT
                       ![r].pc = "save",
                       ![r].stats = [total_attempts |-> Len(done),
                                     average_score |-> AverageScore(done),
                                     top_skill_gaps |-> TopSkillGaps(done)]]
    /\ UNCHANGED <<questions, passing_score, attempts, total_attempts,
                   average_score, top_skill_gaps, calc, response,
                   last_question_id, score_runs, gamVars, catalogVars>>

\* submit: assessment.save() writes the statistics; 200.
SubmitSaveStats(r) ==
    /\ At(r, "submit", "save")
    /\ total_attempts' = reqs[r].stats.total_attempts
    /\ average_score' = reqs[r].stats.average_score
    /\ top_skill_gaps' = reqs[r].stats.top_skill_gaps
    /\ response' = [op |-> "submit", status |-> 200, attempt |-> reqs[r].attempt]
    /\ reqs' = [reqs EXCEPT ![r] = Answered(@)]
    /\ UNCHANGED <<questions, passing_score, attempts, calc, last_question_id,
                   score_runs, gamVars, catalogVars>>

\* An assessment with one question, and either no attempt yet or an attempt
\* of each user in progress.
InitRace ==
    /\ questions = <<RaceQuestion>>
    /\ passing_score = 70
    /\ attempts \in {<<>>, <<NewAttempt("u1"), NewAttempt("u2")>>}
    /\ total_attempts = 0
    /\ average_score = 0
    /\ top_skill_gaps = <<>>
    /\ calc = NoCalc
    /\ response = [op |-> "none", status |-> 0, attempt |-> 0]
    /\ NoCatalog
    /\ last_question_id = 1
    /\ score_runs = [i \in 1..Len(attempts) |-> 0]
    /\ Quiet

NextRace ==
    \/ \E u \in RaceUsers : Arrive("start", u, NoPayload)
    \/ \E u \in RaceUsers : \E payload \in RacePayloads : Arrive("submit", u, payload)
    \/ \E r \in 1..Len(reqs) : StartCheck(r)
    \/ \E r \in 1..Len(reqs) : StartCreate(r)
    \/ \E r \in 1..Len(reqs) : SubmitFetch(r)
    \/ \E r \in 1..Len(reqs) : SubmitComplete(r)
    \/ \E r \in 1..Len(reqs) : SubmitScore(r)
    \/ \E r \in 1..Len(reqs) : SubmitReadStats(r)
    \/ \E r \in 1..Len(reqs) : SubmitSaveStats(r)

SpecRace == InitRace /\ [][NextRace]_vars

\* C13: at every moment each user has at most one attempt in progress on the
\* assessment, whatever the interleaving of start and submit requests.
C13_OneInProgress ==
    \A u \in RaceUsers :
        Cardinality({i \in 1..Len(attempts) :
                        attempts[i].user = u /\ attempts[i].status = "in_progress"})
            <= 1

\* No submit request is being worked on.
SubmitsFinished == \A r \in 1..Len(reqs) : reqs[r].op = "submit" => reqs[r].pc = "done"

\* C14: once the submit requests have finished, the statistics kept on the
\* assessment are those of all its completed attempts: their number, the
\* mean of their scores and the skill gaps over their skill_scores.
C14_StatisticsCurrent ==
    SubmitsFinished =>
        /\ total_attempts = Len(Visited)
        /\ average_score = AverageScore(Visited)
        /\ top_skill_gaps = TopSkillGaps(Visited)

(***************************************************************************)
(* Gamification: UserGamification and the views that award XP.  total_xp   *)
(* stays far below the range of PositiveIntegerField, and in that range    *)
(* math.sqrt of a float is exact enough for int() to give the integer      *)
(* square root.                                                            *)
(***************************************************************************)
assessmentVars ==
    <<questions, passing_score, attempts, total_attempts, average_score,
      top_skill_gaps, calc, last_question_id, score_runs>>

Max(a, b) == IF a >= b THEN a ELSE b

\* UserGamification.RANKS
RANKS ==
    <<[threshold |-> 0, rank_name |-> "Novice"],
      [threshold |-> 100, rank_name |-> "Beginner"],
      [threshold |-> 500, rank_name |-> "Learner"],
      [threshold |-> 1000, rank_name |-> "Student"],
      [threshold |-> 2500, rank_name |-> "Scholar"],
      [threshold |-> 5000, rank_name |-> "Expert"],
      [threshold |-> 10000, rank_name |-> "Master"],
      [threshold |-> 25000, rank_name |-> "Grandmaster"],
      [threshold |-> 50000, rank_name |-> "Legend"]>>

\* int(math.sqrt(total_xp / 100)): the greatest k with k * k <= total_xp / 100.
RECURSIVE IntSqrtOfHundredth(_, _)
IntSqrtOfHundredth(total_xp, k) ==
    IF (k + 1) * (k + 1) * 100 > total_xp THEN k
    ELSE IntSqrtOfHundredth(total_xp, k + 1)

\* Variant: the level is the square root itself.
calculate_level_no_offset(total_xp) == Max(1, IntSqrtOfHundredth(total_xp, 0))

\* self.level = max(1, int(math.sqrt(self.total_xp / 100)) + 1)
calculate_level(total_xp) == Max(1, IntSqrtOfHundredth(total_xp, 0) + 1)

\* Variant: a threshold is passed only when total_xp is above it.
RECURSIVE calculate_rank_above(_, _, _)
calculate_rank_above(total_xp, rank, i) ==
    IF i = 0 THEN rank
    ELSE IF total_xp > RANKS[i].threshold THEN RANKS[i].rank_name
    ELSE calculate_rank_above(total_xp, rank, i - 1)

\* for threshold, rank_name in reversed(self.RANKS): the first one with
\* total_xp >= threshold gives the rank; the rank stays when there is none.
RECURSIVE calculate_rank(_, _, _)
calculate_rank(total_xp, rank, i) ==
    IF i = 0 THEN rank
    ELSE IF total_xp >= RANKS[i].threshold THEN RANKS[i].rank_name
    ELSE calculate_rank(total_xp, rank, i - 1)

\* Variant: the rank is not computed again.
add_xp_keeping_rank(g, amount) ==
    [g EXCEPT !.total_xp = g.total_xp + amount,
              !.level = calculate_level(g.total_xp + amount)]

\* Variant: the award replaces the total.
add_xp_replacing(g, amount) ==
    [g EXCEPT !.total_xp = amount,
              !.level = calculate_level(amount),
              !.rank = calculate_rank(amount, g.rank, Len(RANKS))]

\* add_xp: the row after total_xp += amount, calculate_level(),
\* calculate_rank() and save().
add_xp(g, amount) ==
    [g EXCEPT !.total_xp = g.total_xp + amount,
              !.level = calculate_level(g.total_xp + amount),
              !.rank = calculate_rank(g.total_xp + amount, g.rank, Len(RANKS))]

\* Variant: a streak that was broken goes on.
update_streak_no_reset(g, day) ==
    LET current == IF g.last_activity_date = <<day>> THEN g.current_streak
                   ELSE g.current_streak + 1
    IN  [g EXCEPT !.current_streak = current,
                  !.longest_streak = Max(g.longest_streak, current),
                  !.last_activity_date = <<day>>]

\* Variant: longest_streak follows current_streak.
update_streak_longest_is_current(g, day) ==
    LET current == IF g.last_activity_date = NoDate THEN 1
                   ELSE IF g.last_activity_date = <<day>> THEN g.current_streak
                   ELSE IF g.last_activity_date = <<day - 1>> THEN g.current_streak + 1
                   ELSE 1
    IN  [g EXCEPT !.current_streak = current,
                  !.longest_streak = current,
                  !.last_activity_date = <<day>>]

\* update_streak: the row after the method, day being timezone.now().date().
update_streak(g, day) ==
    LET current == IF g.last_activity_date = NoDate THEN 1
                   ELSE IF g.last_activity_date = <<day>> THEN g.current_streak
                   ELSE IF g.last_activity_date = <<day - 1>> THEN g.current_streak + 1
                   ELSE 1
    IN  [g EXCEPT !.current_streak = current,
                  !.longest_streak = Max(g.longest_streak, current),
                  !.last_activity_date = <<day>>]

\* Variant: the XP still missing in the current level.
get_xp_for_this_level(g) ==
    Max(0, (g.level - 1) * (g.level - 1) * 100 - g.total_xp)

\* get_xp_for_next_level: next_level = level + 1;
\* xp_needed = (next_level - 1) ** 2 * 100; max(0, xp_needed - total_xp)
get_xp_for_next_level(g) ==
    LET next_level == g.level + 1
        xp_needed == (next_level - 1) * (next_level - 1) * 100
    IN  Max(0, xp_needed - g.total_xp)

\* UpdateStreakView.post: the bonus for a streak that grew to new_streak.
StreakBonus(new_streak) ==
    IF new_streak >= 30 THEN 50
    ELSE IF new_streak >= 14 THEN 25
    ELSE IF new_streak >= 7 THEN 15
    ELSE IF new_streak >= 3 THEN 10
    ELSE 5

\* The active STREAK rows of Achievement, as seed_achievements creates them.
StreakAchievements ==
    <<[requirement |-> 3, xp_reward |-> 50],
      [requirement |-> 7, xp_reward |-> 150],
      [requirement |-> 30, xp_reward |-> 500],
      [requirement |-> 100, xp_reward |-> 2000]>>

\* UserAchievement defaults.
NewUserAchievement == [progress |-> 0, unlocked |-> FALSE]

\* _check_streak_achievements from achievement a on: st holds the
\* gamification object, the UserAchievement rows and the amounts awarded.
RECURSIVE CheckStreakAchievements(_, _, _)
CheckStreakAchievements(st, streak, a) ==
    IF a > Len(StreakAchievements) THEN st
    ELSE LET row == IF a <= Len(st.rows) THEN st.rows[a] ELSE NewUserAchievement
             rows == IF a <= Len(st.rows) THEN st.rows ELSE Append(st.rows, row)
         IN  IF ~row.unlocked /\ streak >= StreakAchievements[a].requirement
             THEN CheckStreakAchievements(
                      [g |-> add_xp(st.g, StreakAchievements[a].xp_reward),
                       rows |-> [rows EXCEPT ![a] = [progress |-> streak,
                                                    unlocked |-> TRUE]],
                       awards |-> Append(st.awards, StreakAchievements[a].xp_reward)],
                      streak, a + 1)
             ELSE CheckStreakAchievements(
                      [g |-> st.g, rows |-> rows, awards |-> st.awards],
                      streak, a + 1)

\* The history of add_xp calls after the amounts given.
Award(amounts) ==
    [calls |-> awarded.calls + Len(amounts), sum |-> awarded.sum + SumSeq(amounts)]

(***************************************************************************)
(* The gamification requests of one user, one after the other, over a few  *)
(* days.                                                                   *)
(***************************************************************************)
MaxAwards == 2
MaxDay == 3

\* The XP the user has when the run starts: each rank threshold less one.
XpStarts == {0, 99, 499, 999, 2499, 4999, 9999, 24999, 49999}
XpAmounts == {1, 100}
InvalidAmounts == {0, -5}

\* The row of a user who was awarded xp so far.
GamificationAt(xp) == add_xp(NewGamification, xp)

\* The assessment tables play no part.
NoAssessment ==
    /\ questions = <<>>
    /\ passing_score = 70
    /\ attempts = <<>>
    /\ total_attempts = 0
    /\ average_score = 0
    /\ top_skill_gaps = <<>>
    /\ calc = NoCalc
    /\ last_question_id = 0
    /\ score_runs = <<>>

\* POST me/xp/ with an amount AddXPSerializer accepts (min_value=1).
AddXPAs(op, amount) ==
    /\ amount >= 1
    /\ awarded.calls < MaxAwards
    /\ gam' = add_xp(gam, amount)
    /\ awarded' = Award(<<amount>>)
    /\ response' = [op |-> op, status |-> 200, attempt |-> 0]
    /\ UNCHANGED <<assessmentVars, catalogVars, reqs, user_achievements, today>>

AddXP(amount) == AddXPAs("add_xp", amount)

\* POST me/xp/ with the amount GET me/ shows as xp_for_next_level.
AddXPForNextLevel == AddXPAs("add_xp_for_next_level", get_xp_for_next_level(gam))

\* POST me/xp/ with an amount below 1: 400.
AddXPInvalid(amount) ==
    /\ amount < 1
    /\ response' = [op |-> "add_xp", status |-> 400, attempt |-> 0]
    /\ UNCHANGED <<assessmentVars, reqs, gamVars, catalogVars>>

\* POST me/streak/: update_streak, then the bonus and the streak
\* achievements when the streak grew.
UpdateStreak ==
    LET old_streak == gam.current_streak
        updated == update_streak(gam, today)
        new_streak == updated.current_streak
        st == IF new_streak > old_streak
              THEN CheckStreakAchievements(
                       [g |-> add_xp(updated, StreakBonus(new_streak)),
                        rows |-> user_achievements,
                        awards |-> <<StreakBonus(new_streak)>>],
                       new_streak, 1)
              ELSE [g |-> updated, rows |-> user_achievements, awards |-> <<>>]
    IN  /\ gam' = st.g
        /\ user_achievements' = st.rows
        /\ awarded' = Award(st.awards)
        /\ response' = [op |-> "update_streak", status |-> 200, attempt |-> 0]
        /\ UNCHANGED <<assessmentVars, catalogVars, reqs, today>>

\* Midnight passes, once or twice, with no request in between.
NextDay(d) ==
    /\ today + d <= MaxDay
    /\ today' = today + d
    /\ response' = [op |-> "none", status |-> 0, attempt |-> 0]
    /\ UNCHANGED <<assessmentVars, catalogVars, reqs, gam, user_achievements, awarded>>

InitGam ==
    /\ NoAssessment
    /\ response = [op |-> "none", status |-> 0, attempt |-> 0]
    /\ NoCatalog
    /\ reqs = <<>>
    /\ gam \in {GamificationAt(xp) : xp \in XpStarts}
    /\ user_achievements = <<>>
    /\ today = 0
    /\ awarded = [calls |-> 0, sum |-> 0]

NextGam ==
    \/ \E amount \in XpAmounts : AddXP(amount)
    \/ AddXPForNextLevel
    \/ \E amount \in InvalidAmounts : AddXPInvalid(amount)
    \/ UpdateStreak
    \/ \E d \in {1, 2} : NextDay(d)

SpecGam == InitGam /\ [][NextGam]_vars

\* The closed form of the level: the L >= 1 with
\* (L - 1)^2 * 100 <= total_xp < L^2 * 100.
LevelBracket(level, total_xp) ==
    /\ level >= 1
    /\ (level - 1) * (level - 1) * 100 <= total_xp
    /\ total_xp < level * level * 100

C17_StreakUpdate ==
    [][response'.op = "update_streak" =>
          /\ gam.last_activity_date = <<today - 1>> =>
                 gam'.current_streak = gam.current_streak + 1
          /\ gam.last_activity_date = <<today>> =>
                 gam'.current_streak = gam.current_streak
          /\ gam.last_activity_date \notin {<<today - 1>>, <<today>>} =>
                 gam'.current_streak = 1
          /\ gam'.last_activity_date = <<today>>
      ]_vars

\* A streak of two days or more was broken by a day without activity: the
\* update set current_streak to 1.
C17_Witness ==
    /\ response.op = "update_streak"
    /\ gam.last_activity_date = <<today>>
    /\ today >= 3
    /\ gam.current_streak = 1
    /\ gam.longest_streak >= 2

\* C18: a streak update leaves longest_streak at the greater of its former
\* value and the new current_streak; in every state longest_streak is at
\* least current_streak, and it never goes down.
C18_LongestStreak ==
    /\ [](gam.longest_streak >= gam.current_streak)
    /\ [][/\ gam'.longest_streak >= gam.longest_streak
          /\ response'.op = "update_streak" =>
                 gam'.longest_streak
                     = IF gam.longest_streak >= gam'.current_streak
                       THEN gam.longest_streak ELSE gam'.current_streak
         ]_vars

\* The streak grew to 2 and was broken and started again: longest_streak
\* stays at 2 above a current_streak of 1.
C18_Witness ==
    /\ response.op = "update_streak"
    /\ gam.longest_streak = 2
    /\ gam.current_streak = 1
    /\ gam.longest_streak > gam.current_streak

\* The thresholds of the ranks as the claim lists them.
ClaimedThresholds == {0, 100, 500, 1000, 2500, 5000, 10000, 25000, 50000}

\* C19: the rank is the label of the highest of the thresholds 0, 100, 500,
\* 1000, 2500, 5000, 10000, 25000, 50000 that is at most total_xp: Novice at
\* 0, Legend from 50000 on.
C19_RankFormula ==
    /\ {RANKS[i].threshold : i \in 1..Len(RANKS)} = ClaimedThresholds
    /\ \E i \in 1..Len(RANKS) :
          /\ RANKS[i].threshold <= gam.total_xp
          /\ \A t \in ClaimedThresholds : t <= gam.total_xp => t <= RANKS[i].threshold
          /\ gam.rank = RANKS[i].rank_name
    /\ gam.total_xp = 0 => gam.rank = "Novice"
    /\ gam.total_xp >= 50000 => gam.rank = "Legend"

\* add_xp took total_xp from 49999 to 50000 and the rank to Legend.
C19_Witness ==
    /\ response.op = "add_xp"
    /\ response.status = 200
    /\ awarded.calls = 1
    /\ gam.total_xp = 50000
    /\ gam.rank = "Legend"

\* C20: get_xp_for_next_level gives max(0, level^2 * 100 - total_xp) for the
\* stored level and total_xp, and an add_xp of that amount takes the level
\* up by one.
C20_XpForNextLevel ==
    /\ [](get_xp_for_next_level(gam)
             = IF gam.level * gam.level * 100 - gam.total_xp >= 0
               THEN gam.level * gam.level * 100 - gam.total_xp ELSE 0)
    /\ [][response'.op = "add_xp_for_next_level" =>
              /\ gam'.total_xp = gam.level * gam.level * 100
              /\ gam'.total_xp > gam.total_xp
              /\ gam'.level = gam.level + 1
         ]_vars

\* The user had 499 XP at level 3, was given the 401 XP shown as missing and
\* is at level 4 with 900 XP.
C20_Witness ==
    /\ response.op = "add_xp_for_next_level"
    /\ awarded = [calls |-> 1, sum |-> 401]
    /\ gam.total_xp = 900
    /\ gam.level = 4

(***************************************************************************)
(* Gamification requests in flight: each request loads the user's row      *)
(* with get_or_create, changes its copy and writes every column of it      *)
(* back with save().  Nothing locks the row, so the statements of several  *)
(* requests interleave.  The achievement loop is taken as one statement.   *)
(***************************************************************************)
MaxGamRequests == 3

\* A request as it arrives at AddXPView or UpdateStreakView.
NewGamRequest(op, amount) ==
    [op |-> op, pc |-> "load", amount |-> amount, row |-> NewGamification,
     new_streak |-> 0]

GamAnswered(req) ==
    [req EXCEPT !.pc = "done", !.amount = 0, !.row = NewGamification,
                !.new_streak = 0]

GamArrive(op, amount) ==
    /\ Len(reqs) < MaxGamRequests
    /\ reqs' = Append(reqs, NewGamRequest(op, amount))
    /\ UNCHANGED <<assessmentVars, response, gamVars, catalogVars>>

\* UserGamification.objects.get_or_create(user=request.user)
GamLoad(r) ==
    /\ r \in 1..Len(reqs)
    /\ reqs[r].pc = "load"
    /\ reqs' = [reqs EXCEPT ![r].row = gam,
                            ![r].pc = IF reqs[r].op = "add_xp" THEN "award"
                                      ELSE "streak"]
    /\ UNCHANGED <<assessmentVars, response, gamVars, catalogVars>>

\* AddXPView.post: gamification.add_xp(amount) on the loaded row; 200.
AddXPAward(r) ==
    /\ At(r, "add_xp", "award")
    /\ gam' = add_xp(reqs[r].row, reqs[r].amount)
    /\ awarded' = Award(<<reqs[r].amount>>)
    /\ response' = [op |-> "add_xp", status |-> 200, attempt |-> 0]
    /\ reqs' = [reqs EXCEPT ![r] = GamAnswered(@)]
    /\ UNCHANGED <<assessmentVars, catalogVars, user_achievements, today>>

\* UpdateStreakView.post: gamification.update_streak() on the loaded row;
\* the response when the streak did not grow.
StreakUpdate(r) ==
    /\ At(r, "update_streak", "streak")
    /\ LET updated == update_streak(reqs[r].row, today)
       IN  /\ gam' = updated
           /\ IF updated.current_streak > reqs[r].row.current_streak
              THEN /\ reqs' = [reqs EXCEPT
                                  ![r].pc = "bonus",
                                  ![r].row = updated,
                                  ![r].new_streak = updated.current_streak]
                   /\ UNCHANGED response
              ELSE /\ reqs' = [reqs EXCEPT ![r] = GamAnswered(@)]
                   /\ response' = [op |-> "update_streak", status |-> 200,
                                   attempt |-> 0]
    /\ UNCHANGED <<assessmentVars, catalogVars, user_achievements, today, awarded>>

\* UpdateStreakView.post: gamification.add_xp(streak_bonus)
StreakAwardBonus(r) ==
    /\ At(r, "update_streak", "bonus")
    /\ LET row == add_xp(reqs[r].row, StreakBonus(reqs[r].new_streak))
       IN  /\ gam' = row
           /\ reqs' = [reqs EXCEPT ![r].pc = "achievements", ![r].row = row]
    /\ awarded' = Award(<<StreakBonus(reqs[r].new_streak)>>)
    /\ UNCHANGED <<assessmentVars, catalogVars, response, user_achievements, today>>

\* UpdateStreakView.post: _check_streak_achievements and the response.
StreakAchieve(r) ==
    /\ At(r, "update_streak", "achievements")
    /\ LET st == CheckStreakAchievements(
                     [g |-> reqs[r].row, rows |-> user_achievements,
                      awards |-> <<>>],
                     reqs[r].new_streak, 1)
       IN  /\ gam' = IF Len(st.awards) = 0 THEN gam ELSE st.g
           /\ user_achievements' = st.rows
           /\ awarded' = Award(st.awards)
    /\ response' = [op |-> "update_streak", status |-> 200, attempt |-> 0]
    /\ reqs' = [reqs EXCEPT ![r] = GamAnswered(@)]
    /\ UNCHANGED <<assessmentVars, catalogVars, today>>

InitGamRace ==
    /\ NoAssessment
    /\ response = [op |-> "none", status |-> 0, attempt |-> 0]
    /\ NoCatalog
    /\ Quiet

NextGamRace ==
    \/ \E amount \in XpAmounts : GamArrive("add_xp", amount)
    \/ GamArrive("update_streak", 0)
    \/ \E r \in 1..Len(reqs) : GamLoad(r)
    \/ \E r \in 1..Len(reqs) : AddXPAward(r)
    \/ \E r \in 1..Len(reqs) : StreakUpdate(r)
    \/ \E r \in 1..Len(reqs) : StreakAwardBonus(r)
    \/ \E r \in 1..Len(reqs) : StreakAchieve(r)
    \/ \E d \in {1, 2} : NextDay(d)

SpecGamRace == InitGamRace /\ [][NextGamRace]_vars

\* Every request that arrived was answered.
GamRequestsFinished == \A r \in 1..Len(reqs) : reqs[r].pc = "done"

\* C15: whatever the interleaving of the XP-awarding requests of a user,
\* total_xp never goes down, and once the requests have finished it is the
\* initial total (0 for a new user) plus the sum of the amounts awarded.
C15_NoAwardLost ==
    /\ [](GamRequestsFinished => gam.total_xp = awarded.sum)
    /\ [][gam'.total_xp >= gam.total_xp]_vars

(***************************************************************************)
(* Reading the questions: what the assessment retrieve and the question    *)
(* list and detail endpoints answer to the instructor of the assessment,   *)
(* to another user and to a client that is not logged in.  The text of an  *)
(* option is left out; an option is its isCorrect flag.                    *)
(***************************************************************************)
Instructor == "instructor"
Viewers == {Instructor, "u1", "anonymous"}

\* QuestionSerializer: the row with its options as stored.
QuestionData(q) ==
    [id |-> q.id, options |-> q.options, skill_category |-> q.skill_category,
     points |-> q.points, order |-> q.order]

\* QuestionStudentSerializer: get_options keeps the text of each option.
QuestionStudentData(q) ==
    [id |-> q.id, options |-> [i \in 1..Len(q.options) |-> "text"],
     skill_category |-> q.skill_category, points |-> q.points, order |-> q.order]

\* AssessmentDetailSerializer.get_questions
DetailQuestions(viewer, qs) ==
    IF viewer = Instructor THEN [i \in 1..Len(qs) |-> QuestionData(qs[i])]
    ELSE [i \in 1..Len(qs) |-> QuestionStudentData(qs[i])]

\* QuestionViewSet list: serializer_class = QuestionSerializer for whoever
\* passes IsInstructorOrReadOnly, which lets every GET through.
ListedQuestions(viewer, qs) == [i \in 1..Len(qs) |-> QuestionData(qs[i])]

\* What the endpoint op answers to viewer when the questions are qs.
ReadBody(op, viewer, qs, i) ==
    IF op = "retrieve" THEN DetailQuestions(viewer, qs)
    ELSE IF op = "list_questions" THEN ListedQuestions(viewer, qs)
    ELSE <<ListedQuestions(viewer, qs)[i]>>

\* GET <id>/, GET <id>/questions/ and GET <id>/questions/<i>/.
Read(op, viewer, i) ==
    /\ i \in 1..Len(questions) \/ (i = 0 /\ op # "question_detail")
    /\ response' = [op |-> op, status |-> 200, attempt |-> i, viewer |-> viewer,
                    body |-> ReadBody(op, viewer, questions, i)]
    /\ UNCHANGED <<questions, passing_score, attempts, total_attempts,
                   average_score, top_skill_gaps, calc, last_question_id,
                   score_runs, reqs, gamVars, catalogVars>>

Retrieve(viewer) == Read("retrieve", viewer, 0)
ListQuestions(viewer) == Read("list_questions", viewer, 0)
QuestionDetail(viewer, i) == Read("question_detail", viewer, i)

InitRead ==
    /\ questions = <<>>
    /\ passing_score = 70
    /\ attempts = <<>>
    /\ total_attempts = 0
    /\ average_score = 0
    /\ top_skill_gaps = <<>>
    /\ calc = NoCalc
    /\ response = [op |-> "none", status |-> 0, attempt |-> 0]
    /\ NoCatalog
    /\ last_question_id = 0
    /\ score_runs = <<>>
    /\ Quiet

NextRead ==
    \/ \E q \in QuestionPool : CreateQuestion(q)
    \/ \E viewer \in Viewers : Retrieve(viewer)
    \/ \E viewer \in Viewers : ListQuestions(viewer)
    \/ \E viewer \in Viewers : \E i \in 1..Len(questions) : QuestionDetail(viewer, i)

SpecRead == InitRead /\ [][NextRead]_vars

ReadOps == {"retrieve", "list_questions", "question_detail"}

\* The question lists that differ from qs in the isCorrect flags only.
Reflagged(qs) ==
    {qs2 \in [1..Len(qs) ->
                UNION {{[qs[i] EXCEPT !.options = o] :
                           o \in [1..Len(qs[i].options) -> BOOLEAN]} :
                       i \in 1..Len(qs)}] :
        \A i \in 1..Len(qs) : [qs2[i] EXCEPT !.options = qs[i].options] = qs[i]}

\* C21: what a user other than the instructor reads about the questions
\* (assessment retrieve, question list, question detail) is the same for
\* every choice of the options flagged isCorrect.
C21_AnswersHidden ==
    (response.op \in ReadOps /\ response.viewer # Instructor) =>
        \A qs2 \in Reflagged(questions) :
            ReadBody(response.op, response.viewer, qs2, response.attempt)
                = response.body

\* The retrieve endpoint alone keeps the flags from other users.
RetrieveHidesAnswers ==
    (response.op = "retrieve" /\ response.viewer # Instructor) =>
        \A qs2 \in Reflagged(questions) :
            ReadBody(response.op, response.viewer, qs2, response.attempt)
                = response.body

(***************************************************************************)
(* The feedback of an attempt: GET attempts/<pk>/ next to the requests of  *)
(* Spec.                                                                   *)
(***************************************************************************)
\* One entry of get_questions_feedback: the loop over the options stops at
\* the first one flagged isCorrect and compares the answer with its index.
FeedbackOf(q, answers) ==
    LET key == str(q.id)
        answered == key \in DOMAIN answers
        correct_idx == CorrectIndex(q.options, 1)
    IN  [question_id |-> q.id,
         selected_answer |-> IF answered THEN <<answers[key]>> ELSE <<>>,
         correct_answer |-> IF correct_idx = -1 THEN <<>> ELSE <<correct_idx>>,
         is_correct |-> /\ correct_idx # -1
                        /\ answered
                        /\ answers[key] = correct_idx]

\* AttemptResultSerializer.get_questions_feedback
QuestionsFeedback(qs, answers) == [k \in 1..Len(qs) |-> FeedbackOf(qs[k], answers)]

\* GET attempts/<pk>/: AttemptDetailView serves the user's own attempts.
AttemptDetail(u, i) ==
    /\ i \in 1..Len(attempts)
    /\ attempts[i].user = u
    /\ response' = [op |-> "attempt_detail", status |-> 200, attempt |-> i,
                    body |-> QuestionsFeedback(questions, attempts[i].answers)]
    /\ UNCHANGED <<questions, passing_score, attempts, total_attempts,
                   average_score, top_skill_gaps, calc, last_question_id,
                   score_runs, reqs, gamVars, catalogVars>>

NextFeedback ==
    \/ Next
    \/ \E u \in Users : \E i \in 1..Len(attempts) : AttemptDetail(u, i)

SpecFeedback == Init /\ [][NextFeedback]_vars

\* C22: in the feedback of a completed attempt, is_correct is true for a
\* question exactly when calculate_score awarded the points of that question.
C22_FeedbackAgreesWithScore ==
    (/\ response.op = "attempt_detail"
     /\ attempts[response.attempt].status = "completed") =>
        \A k \in 1..Len(calc.questions) :
            response.body[k].is_correct
                = IsAwarded(calc.questions[k], attempts[response.attempt].answers)

\* The same with every answer a zero-based index or absent, and no question
\* with more than one option flagged.
C22_FeedbackAgreesOnPlainInput ==
    (/\ response.op = "attempt_detail"
     /\ attempts[response.attempt].status = "completed"
     /\ \A k \in 1..Len(calc.questions) :
           /\ ~HasInvalidIndex(calc.questions[k], calc.answers)
           /\ Cardinality({o \in 1..Len(calc.questions[k].options) :
                               calc.questions[k].options[o]}) <= 1) =>
        \A k \in 1..Len(calc.questions) :
            response.body[k].is_correct
                = IsAwarded(calc.questions[k], attempts[response.attempt].answers)

\* C23: a submit that ends 404 or 400 leaves every attempt, the questions
\* and the statistics of the assessment as they were; it ends 404 exactly
\* when the user has no attempt in progress, and after a 400 the user still
\* has the one attempt in progress that a later submit completes.
C23_FailedSubmitChangesNothing ==
    /\ [][(response'.op = "submit" /\ response'.status \in {400, 404}) =>
              /\ attempts' = attempts
              /\ questions' = questions
              /\ total_attempts' = total_attempts
              /\ average_score' = average_score
              /\ top_skill_gaps' = top_skill_gaps
              /\ score_runs' = score_runs
              /\ (response'.status = 404)
                    = (\A i \in 1..Len(attempts) : attempts[i].status # "in_progress")
         ]_vars
    /\ []((response.op = "submit" /\ response.status = 400) =>
              \A u \in Users :
                  Cardinality({i \in 1..Len(attempts) :
                                 /\ attempts[i].user = u
                                 /\ attempts[i].status = "in_progress"}) = 1)

\* After a completed submit the user submitted again and got 404; the
\* attempt and the statistics are those of the completed submit.
C23_Witness ==
    /\ response.op = "submit"
    /\ response.status = 404
    /\ Len(questions) >= 1
    /\ attempts[1].status = "completed"
    /\ attempts[1].score = StoredScore(calc.score)
    /\ total_attempts = 1

\* A rejected payload was answered 400 and the attempt is still in progress.
C23_WitnessInvalid ==
    /\ response.op = "submit"
    /\ response.status = 400
    /\ attempts[1].status = "in_progress"
    /\ Len(questions) >= 1

(***************************************************************************)
(* The achievements of one user: UserAchievement.update_progress called    *)
(* on a row of the user, next to the gamification requests.  Each call     *)
(* works on the row as it is stored.  reqs has one entry for each call.    *)
(***************************************************************************)
MaxProgressCalls == 3

\* The increments tried: the default, and one that reaches any requirement.
Increments == {1, 100}

\* Variant: update_progress without the early return of an unlocked row.
update_progress_again(st, a, increment) ==
    LET requirement == StreakAchievements[a].requirement
        xp_reward == StreakAchievements[a].xp_reward
        progress == st.rows[a].progress + increment
    IN  IF progress >= requirement
        THEN [g |-> add_xp(st.g, xp_reward),
              rows |-> [st.rows EXCEPT ![a] = [progress |-> progress,
                                               unlocked |-> TRUE]],
              awards |-> Append(st.awards, xp_reward),
              returned |-> TRUE]
        ELSE [g |-> st.g,
              rows |-> [st.rows EXCEPT ![a].progress = progress],
              awards |-> st.awards,
              returned |-> FALSE]

\* UserAchievement.update_progress on row a: st holds the gamification
\* row, the UserAchievement rows and the amounts awarded; returned is the
\* value the method returns.
update_progress(st, a, increment) ==
    IF st.rows[a].unlocked
    THEN [g |-> st.g, rows |-> st.rows, awards |-> st.awards, returned |-> FALSE]
    ELSE LET requirement == StreakAchievements[a].requirement
             xp_reward == StreakAchievements[a].xp_reward
             progress == st.rows[a].progress + increment
         IN  IF progress >= requirement
             THEN [g |-> add_xp(st.g, xp_reward),
                   rows |-> [st.rows EXCEPT ![a] = [progress |-> progress,
                                                    unlocked |-> TRUE]],
                   awards |-> Append(st.awards, xp_reward),
                   returned |-> TRUE]
             ELSE [g |-> st.g,
                   rows |-> [st.rows EXCEPT ![a].progress = progress],
                   awards |-> st.awards,
                   returned |-> FALSE]

\* A call of update_progress(increment) on the stored row a of the user.
UpdateProgress(a, increment) ==
    /\ Len(reqs) < MaxProgressCalls
    /\ a \in 1..Len(user_achievements)
    /\ LET st == update_progress([g |-> gam, rows |-> user_achievements,
                                  awards |-> <<>>], a, increment)
       IN  /\ gam' = st.g
           /\ user_achievements' = st.rows
           /\ awarded' = Award(st.awards)
           /\ response' = [op |-> "update_progress", status |-> 200,
                           attempt |-> a, body |-> st.returned]
    /\ reqs' = Append(reqs, [op |-> "update_progress"])
    /\ UNCHANGED <<assessmentVars, catalogVars, today>>

\* The XP the user has when the run starts: none, or one short of the
\* first threshold.
AchXpStarts == {0, 99}

InitAch ==
    /\ NoAssessment
    /\ response = [op |-> "none", status |-> 0, attempt |-> 0]
    /\ NoCatalog
    /\ reqs = <<>>
    /\ gam \in {GamificationAt(xp) : xp \in AchXpStarts}
    /\ user_achievements = <<>>
    /\ today = 0
    /\ awarded = [calls |-> 0, sum |-> 0]

NextAch ==
    \/ AddXP(1)
    \/ UpdateStreak
    \/ NextDay(1)
    \/ \E a \in 1..Len(StreakAchievements) :
           \E increment \in Increments : UpdateProgress(a, increment)

SpecAch == InitAch /\ [][NextAch]_vars

\* The row of achievement a is stored and unlocked.
Unlocked(rows, a) == a <= Len(rows) /\ rows[a].unlocked

\* The rewards of the achievements that are unlocked in after and were not
\* in before, from achievement a on.
RECURSIVE NewRewards(_, _, _)
NewRewards(before, after, a) ==
    IF a > Len(StreakAchievements) THEN 0
    ELSE (IF Unlocked(after, a) /\ ~Unlocked(before, a)
          THEN StreakAchievements[a].xp_reward ELSE 0)
         + NewRewards(before, after, a + 1)

\* C24: in every state reached by add_xp, streak updates and achievement
\* unlocks the stored level L has (L - 1)^2 * 100 <= total_xp < L^2 * 100
\* and the stored rank is the label of the highest threshold that is at
\* most total_xp.
C24_LevelAndRankConsistent ==
    /\ (gam.level - 1) * (gam.level - 1) * 100 <= gam.total_xp
    /\ gam.total_xp < gam.level * gam.level * 100
    /\ \A i \in 1..Len(RANKS) :
          (/\ RANKS[i].threshold <= gam.total_xp
           /\ \A j \in 1..Len(RANKS) :
                 RANKS[j].threshold <= gam.total_xp
                     => RANKS[j].threshold <= RANKS[i].threshold)
              => gam.rank = RANKS[i].rank_name

\* update_progress unlocked the 3-day achievement of a user with 99 XP, and
\* a streak update gave the bonus: the 50 XP of the achievement took the
\* user past the threshold of Beginner and into level 2.
C24_Witness ==
    /\ Unlocked(user_achievements, 1)
    /\ gam.current_streak = 1
    /\ gam.total_xp = 99 + 5 + 50
    /\ gam.level = 2
    /\ gam.rank = "Beginner"
    /\ Len(reqs) >= 1

\* C25: a step adds the xp_reward of an achievement only when it unlocks
\* it, an unlocked achievement stays unlocked, and update_progress leaves
\* the progress of an unlocked achievement alone: the reward is paid at
\* most once.  A streak update adds its bonus and the rewards of the
\* achievements it unlocks, update_progress the reward of the one it
\* unlocks.
C25_PaidOnce ==
    [][/\ \A a \in 1..Len(StreakAchievements) :
             Unlocked(user_achievements, a) => Unlocked(user_achievements', a)
       /\ response'.op = "update_progress" =>
             /\ gam'.total_xp - gam.total_xp
                    = NewRewards(user_achievements, user_achievements', 1)
             /\ \A a \in 1..Len(StreakAchievements) :
                    Unlocked(user_achievements, a) =>
                        user_achievements'[a] = user_achievements[a]
       /\ response'.op = "update_streak" =>
             gam'.total_xp - gam.total_xp
                 = (IF gam'.current_streak > gam.current_streak
                    THEN StreakBonus(gam'.current_streak) ELSE 0)
                   + NewRewards(user_achievements, user_achievements', 1)
      ]_vars

\* update_progress was called on an achievement that was unlocked before:
\* it returned False and the user has the one reward of 50 XP.
C25_Witness ==
    /\ response.op = "update_progress"
    /\ response.body = FALSE
    /\ response.attempt = 1
    /\ Unlocked(user_achievements, 1)
    /\ user_achievements[1].progress = 100
    /\ Len(reqs) >= 2
    /\ awarded.sum = 5 + 50

\* The streak requests whose update_streak made the streak grow on day d:
\* each of them answers with a streak_bonus_xp above 0 and calls add_xp.
BonusRequests(d) ==
    {r \in 1..Len(reqs) :
        /\ reqs[r].op = "update_streak"
        /\ reqs[r].pc \in {"bonus", "achievements"}
        /\ reqs[r].row.last_activity_date = <<d>>}

\* C26: whatever the interleaving of the streak requests of a user, at most
\* one request of a calendar day finds that the streak grew and awards the
\* streak bonus.
C26_OneBonusPerDay ==
    \A d \in 0..MaxDay : Cardinality(BonusRequests(d)) <= 1

(***************************************************************************)
(* Enrolling in the course: CourseViewSet.enroll, statement by statement.  *)
(* Each request reads the course row, looks for the user's enrollment,     *)
(* creates it and writes the counter it read plus one.  Nothing locks the  *)
(* course row, so the statements of several requests interleave.           *)
(***************************************************************************)
MaxEnrollRequests == 3

EnrollUsers == {"u1", "u2"}

\* Enrollment defaults: status active.
NewEnrollment(u) == [user |-> u, status |-> "active"]

\* Enrollment.objects.filter(user=u, course=course).exists()
Enrolled(u) == \E i \in 1..Len(enrollments) : enrollments[i].user = u

\* The gamification and assessment tables play no part.
NoGamification ==
    /\ gam = NewGamification
    /\ user_achievements = <<>>
    /\ today = 0
    /\ awarded = [calls |-> 0, sum |-> 0]

\* A request as it arrives at CourseViewSet.enroll; total_enrollments is
\* the counter of the course object the request holds.
NewEnrollRequest(u) ==
    [op |-> "enroll", user |-> u, pc |-> "fetch", total_enrollments |-> 0]

EnrollArrive(u) ==
    /\ Len(reqs) < MaxEnrollRequests
    /\ reqs' = Append(reqs, NewEnrollRequest(u))
    /\ UNCHANGED <<assessmentVars, response, gamVars, catalogVars>>

\* course = self.get_object()
EnrollFetch(r) ==
    /\ At(r, "enroll", "fetch")
    /\ reqs' = [reqs EXCEPT ![r].pc = "check",
                            ![r].total_enrollments = total_enrollments]
    /\ UNCHANGED <<assessmentVars, response, gamVars, catalogVars>>

\* if Enrollment.objects.filter(...).exists(): 400
EnrollCheck(r) ==
    /\ At(r, "enroll", "check")
    /\ IF Enrolled(reqs[r].user)
       THEN /\ reqs' = [reqs EXCEPT ![r].pc = "done"]
            /\ response' = [op |-> "enroll", status |-> 400, attempt |-> 0]
       ELSE /\ reqs' = [reqs EXCEPT ![r].pc = "create"]
            /\ UNCHANGED response
    /\ UNCHANGED <<assessmentVars, gamVars, catalogVars>>

\* Enrollment.objects.create(...): unique_together ['user', 'course'] makes
\* the database refuse a second row of the user, and the request ends 500.
EnrollCreate(r) ==
    /\ At(r, "enroll", "create")
    /\ IF Enrolled(reqs[r].user)
       THEN /\ reqs' = [reqs EXCEPT ![r].pc = "done"]
            /\ response' = [op |-> "enroll", status |-> 500, attempt |-> 0]
            /\ UNCHANGED enrollments
       ELSE /\ enrollments' = Append(enrollments, NewEnrollment(reqs[r].user))
            /\ reqs' = [reqs EXCEPT ![r].pc = "count"]
            /\ UNCHANGED response
    /\ UNCHANGED <<assessmentVars, gamVars, assessment_status,
                   total_enrollments, certificates>>

\* course.total_enrollments += 1; course.save(update_fields=[...]); 201
EnrollCount(r) ==
    /\ At(r, "enroll", "count")
    /\ total_enrollments' = reqs[r].total_enrollments + 1
    /\ reqs' = [reqs EXCEPT ![r].pc = "done"]
    /\ response' = [op |-> "enroll", status |-> 201, attempt |-> 0]
    /\ UNCHANGED <<assessmentVars, gamVars, assessment_status, enrollments,
                   certificates>>

InitEnroll ==
    /\ NoAssessment
    /\ response = [op |-> "none", status |-> 0, attempt |-> 0]
    /\ NoCatalog
    /\ reqs = <<>>
    /\ NoGamification

NextEnroll ==
    \/ \E u \in EnrollUsers : EnrollArrive(u)
    \/ \E r \in 1..Len(reqs) : EnrollFetch(r)
    \/ \E r \in 1..Len(reqs) : EnrollCheck(r)
    \/ \E r \in 1..Len(reqs) : EnrollCreate(r)
    \/ \E r \in 1..Len(reqs) : EnrollCount(r)

SpecEnroll == InitEnroll /\ [][NextEnroll]_vars

\* Every enroll request that arrived was answered.
EnrollsFinished == \A r \in 1..Len(reqs) : reqs[r].pc = "done"

\* C27: whatever the interleaving of the enroll requests, once they have
\* finished total_enrollments is the number of Enrollment rows of the
\* course.
C27_CounterMatchesRows ==
    EnrollsFinished => total_enrollments = Len(enrollments)

\* No user has two Enrollment rows, and an enroll request that finds the
\* user enrolled is answered 400 and leaves rows and counter alone.
EnrollRejectsRepeat ==
    /\ [](\A i, j \in 1..Len(enrollments) :
             enrollments[i].user = enrollments[j].user => i = j)
    /\ [][(\E r \in 1..Len(reqs) :
                 At(r, "enroll", "check") /\ reqs'[r].pc = "done") =>
              /\ response'.status = 400
              /\ enrollments' = enrollments
              /\ total_enrollments' = total_enrollments
         ]_vars

(***************************************************************************)
(* Certificates of the course: enroll, progress that completes the course  *)
(* and generate requests, one after the other.  certificate_id, a uuid4,   *)
(* is the number of the certificate in the order of creation.              *)
(***************************************************************************)
CertUsers == {"u1", "u2", "u3"}

\* The rows of user u in a table.
RowsOf(rows, u) == {i \in 1..Len(rows) : rows[i].user = u}

\* Enrollment rows of user u with status completed.
CompletedEnrollments(u) ==
    {i \in RowsOf(enrollments, u) : enrollments[i].status = "completed"}

\* A request to the course or its certificates leaves the other tables
\* alone.
CourseOnly == UNCHANGED <<assessmentVars, reqs, gamVars, assessment_status>>

\* POST <slug>/enroll/ as a whole: 400 when enrolled, else the row, the
\* counter and 201.
Enroll(u) ==
    /\ IF Enrolled(u)
       THEN /\ response' = [op |-> "enroll", status |-> 400, attempt |-> 0,
                            viewer |-> u, body |-> 0]
            /\ UNCHANGED <<enrollments, total_enrollments>>
       ELSE /\ enrollments' = Append(enrollments, NewEnrollment(u))
            /\ total_enrollments' = total_enrollments + 1
            /\ response' = [op |-> "enroll", status |-> 201, attempt |-> 0,
                            viewer |-> u, body |-> 0]
    /\ UNCHANGED certificates
    /\ CourseOnly

\* POST <slug>/progress/ with mark_complete, complete telling whether the
\* progress reaches 100: 404 without enrollment; the status becomes
\* completed when it does, and is left alone otherwise.
Progress(u, complete) ==
    /\ IF RowsOf(enrollments, u) = {}
       THEN /\ response' = [op |-> "progress", status |-> 404, attempt |-> 0,
                            viewer |-> u, body |-> 0]
            /\ UNCHANGED enrollments
       ELSE /\ enrollments' = [i \in 1..Len(enrollments) |->
                                  IF enrollments[i].user = u /\ complete
                                  THEN [enrollments[i] EXCEPT !.status = "completed"]
                                  ELSE enrollments[i]]
            /\ response' = [op |-> "progress", status |-> 200, attempt |-> 0,
                            viewer |-> u, body |-> 0]
    /\ UNCHANGED <<total_enrollments, certificates>>
    /\ CourseOnly

\* Variant: generate without the look for an existing certificate.
GenerateAnew(u) ==
    /\ IF CompletedEnrollments(u) = {}
       THEN /\ response' = [op |-> "generate", status |-> 404, attempt |-> 0,
                            viewer |-> u, body |-> 0]
            /\ UNCHANGED certificates
       ELSE LET certificate == [user |-> u,
                                certificate_id |-> Len(certificates) + 1]
            IN  /\ certificates' = Append(certificates, certificate)
                /\ response' = [op |-> "generate", status |-> 201,
                                attempt |-> 0, viewer |-> u,
                                body |-> certificate.certificate_id]
    /\ UNCHANGED <<enrollments, total_enrollments>>
    /\ CourseOnly

\* POST generate/<course_id>/: 404 without a completed enrollment; the
\* existing certificate with 200; else a new certificate with 201.
Generate(u) ==
    /\ IF CompletedEnrollments(u) = {}
       THEN /\ response' = [op |-> "generate", status |-> 404, attempt |-> 0,
                            viewer |-> u, body |-> 0]
            /\ UNCHANGED certificates
       ELSE IF RowsOf(certificates, u) # {}
       THEN LET existing == certificates[CHOOSE i \in RowsOf(certificates, u) :
                                \A j \in RowsOf(certificates, u) : i >= j]
            IN  /\ response' = [op |-> "generate", status |-> 200,
                                attempt |-> 0, viewer |-> u,
                                body |-> existing.certificate_id]
                /\ UNCHANGED certificates
       ELSE LET certificate == [user |-> u,
                                certificate_id |-> Len(certificates) + 1]
            IN  /\ certificates' = Append(certificates, certificate)
                /\ response' = [op |-> "generate", status |-> 201,
                                attempt |-> 0, viewer |-> u,
                                body |-> certificate.certificate_id]
    /\ UNCHANGED <<enrollments, total_enrollments>>
    /\ CourseOnly

InitCert ==
    /\ NoAssessment
    /\ response = [op |-> "none", status |-> 0, attempt |-> 0]
    /\ NoCatalog
    /\ reqs = <<>>
    /\ NoGamification

NextCert ==
    \/ \E u \in CertUsers : Enroll(u)
    \/ \E u \in CertUsers : \E complete \in BOOLEAN : Progress(u, complete)
    \/ \E u \in CertUsers : Generate(u)

SpecCert == InitCert /\ [][NextCert]_vars

\* C28: a generate request is answered 404 and creates nothing when the
\* user has no completed enrollment; otherwise it answers with the
\* certificate_id of the one certificate the user then has, which is the
\* certificate the user had before when there was one.  No user ever has
\* two certificates, and no two certificates share a certificate_id.
C28_GenerateIdempotent ==
    /\ [](\A i, j \in 1..Len(certificates) :
             (\/ certificates[i].user = certificates[j].user
              \/ certificates[i].certificate_id = certificates[j].certificate_id)
                 => i = j)
    /\ [](\A i \in 1..Len(certificates) :
             CompletedEnrollments(certificates[i].user) # {})
    /\ [][response'.op = "generate" =>
              LET u == response'.viewer
              IN  IF CompletedEnrollments(u) = {}
                  THEN /\ response'.status = 404
                       /\ certificates' = certificates
                  ELSE /\ response'.status \in {200, 201}
                       /\ \E i \in 1..Len(certificates') :
                             /\ RowsOf(certificates', u) = {i}
                             /\ response'.body = certificates'[i].certificate_id
                       /\ RowsOf(certificates, u) # {} =>
                             /\ certificates' = certificates
                             /\ response'.status = 200
                       /\ \A i \in 1..Len(certificates) :
                             certificates'[i] = certificates[i]
         ]_vars

\* The second user to complete the course asked for the certificate
\* again: the answer is 200 with the certificate_id given before, and each
\* of the two users has one certificate.
C28_Witness ==
    /\ response.op = "generate"
    /\ response.status = 200
    /\ Len(certificates) = 2
    /\ response.viewer = certificates[2].user
    /\ response.body = certificates[2].certificate_id
    /\ certificates[1].user # certificates[2].user

(***************************************************************************)
(* Publishing the assessment: the requests of the instructor who owns it,  *)
(* of another instructor and of a student, one after the other.            *)
(***************************************************************************)
MaxPublishIds == 3

OtherInstructor == "instructor2"
Requesters == {Instructor, OtherInstructor, "u1"}

\* request.user.role == 'instructor'
IsInstructorRole(user) == user \in {Instructor, OtherInstructor}

\* AssessmentViewSet.get_queryset: an instructor sees every assessment,
\* anyone else the published ones.
Visible(user) ==
    /\ assessment_status # "none"
    /\ IsInstructorRole(user) \/ assessment_status = "published"

\* The nested questions of a POST that creates the assessment.
NestedQuestions == {<<>>} \cup {<<q>> : q \in QuestionPool}

\* The Question rows AssessmentCreateSerializer.create makes of the nested
\* questions: order is the index, ids are handed out in sequence.
NestedRows(qs) ==
    [k \in 1..Len(qs) |->
        [id |-> last_question_id + k, order |-> k - 1, points |-> qs[k].points,
         skill_category |-> qs[k].skill_category, options |-> qs[k].options]]

PublishFrame ==
    UNCHANGED <<passing_score, attempts, total_attempts, average_score,
                top_skill_gaps, calc, score_runs, reqs, gamVars, enrollments,
                total_enrollments, certificates>>

\* POST / by an instructor: the assessment is created as a draft with its
\* nested questions.
CreateAssessment(qs) ==
    /\ assessment_status = "none"
    /\ last_question_id + Len(qs) <= MaxPublishIds
    /\ assessment_status' = "draft"
    /\ questions' = NestedRows(qs)
    /\ last_question_id' = last_question_id + Len(qs)
    /\ response' = [op |-> "create_assessment", status |-> 201, attempt |-> 0]
    /\ PublishFrame

\* DELETE /<pk>/ by the instructor who owns the assessment: the row goes
\* and its questions with it.
DeleteAssessment ==
    /\ assessment_status # "none"
    /\ assessment_status' = "none"
    /\ questions' = <<>>
    /\ response' = [op |-> "delete_assessment", status |-> 204, attempt |-> 0]
    /\ UNCHANGED last_question_id
    /\ PublishFrame

\* POST /<pk>/questions/ by an instructor, the assessment being there and
\* ids being left.
CreateQuestionRequest(q) ==
    /\ assessment_status # "none"
    /\ last_question_id < MaxPublishIds
    /\ CreateQuestion(q)

\* DELETE /<pk>/questions/<id>/ by an instructor: get_object() runs
\* IsInstructorOrReadOnly.has_object_permission on the Question row, which
\* reads obj.instructor; Question has no such attribute, the AttributeError
\* is not an APIException and the request ends 500 with the row in place.
DeleteQuestionRequest(i) ==
    /\ assessment_status # "none"
    /\ i \in 1..Len(questions)
    /\ response' = [op |-> "delete_question_request", status |-> 500,
                    attempt |-> i]
    /\ UNCHANGED <<questions, last_question_id, assessment_status>>
    /\ PublishFrame

\* Variant: publish without the count of the questions.
PublishUnchecked(user) ==
    /\ assessment_status # "none"
    /\ IF ~Visible(user)
       THEN /\ response' = [op |-> "publish", status |-> 404, attempt |-> 0]
            /\ UNCHANGED assessment_status
       ELSE IF user # Instructor
       THEN /\ response' = [op |-> "publish", status |-> 403, attempt |-> 0]
            /\ UNCHANGED assessment_status
       ELSE /\ assessment_status' = "published"
            /\ response' = [op |-> "publish", status |-> 200, attempt |-> 0]
    /\ UNCHANGED <<questions, last_question_id>>
    /\ PublishFrame

\* POST /<pk>/publish/: 404 when the user does not see the assessment, 403
\* when the user is not its instructor, 400 when it has no question; else
\* the status becomes published.
Publish(user) ==
    /\ assessment_status # "none"
    /\ IF ~Visible(user)
       THEN /\ response' = [op |-> "publish", status |-> 404, attempt |-> 0]
            /\ UNCHANGED assessment_status
       ELSE IF user # Instructor
       THEN /\ response' = [op |-> "publish", status |-> 403, attempt |-> 0]
            /\ UNCHANGED assessment_status
       ELSE IF Len(questions) = 0
       THEN /\ response' = [op |-> "publish", status |-> 400, attempt |-> 0]
            /\ UNCHANGED assessment_status
       ELSE /\ assessment_status' = "published"
            /\ response' = [op |-> "publish", status |-> 200, attempt |-> 0]
    /\ UNCHANGED <<questions, last_question_id>>
    /\ PublishFrame

InitPublish ==
    /\ questions = <<>>
    /\ passing_score = 70
    /\ attempts = <<>>
    /\ total_attempts = 0
    /\ average_score = 0
    /\ top_skill_gaps = <<>>
    /\ calc = NoCalc
    /\ response = [op |-> "none", status |-> 0, attempt |-> 0]
    /\ last_question_id = 0
    /\ score_runs = <<>>
    /\ Quiet
    /\ assessment_status = "none"
    /\ enrollments = <<>>
    /\ total_enrollments = 0
    /\ certificates = <<>>

NextPublish ==
    \/ \E qs \in NestedQuestions : CreateAssessment(qs)
    \/ DeleteAssessment
    \/ \E q \in QuestionPool : CreateQuestionRequest(q)
    \/ \E i \in 1..Len(questions) : DeleteQuestionRequest(i)
    \/ \E user \in Requesters : Publish(user)

SpecPublish == InitPublish /\ [][NextPublish]_vars

C29_WitnessRejected ==
    /\ response.op = "publish"
    /\ response.status = 400
    /\ assessment_status = "draft"
    /\ questions = <<>>

====
